---- MODULE Spec2Model ----
(***************************************************************************)
(* A model of the tools package of kek/slop-shop: the directive scanner    *)
(* (ExecuteTools), the unified-diff parser (parseDiff, parseRange) and the *)
(* patch engine (applyDiff, applyFileChange, applyHunk).                   *)
(*                                                                         *)
(* A Go string is a sequence of one-character strings; a []string is a     *)
(* record with its backing array and its length, so that re-slicing up to  *)
(* the capacity and in-place appends behave as they do in Go.              *)
(*                                                                         *)
(* Around them: the streaming loop of the ollama package                   *)
(* (SendToOllamaWithCallback), runBatch with its producer goroutine, and   *)
(* the REPLModel of the tui package with the goroutines that stream a      *)
(* response into it.                                                       *)
(***************************************************************************)
EXTENDS Integers, Sequences, FiniteSets, TLC

VARIABLES
    mode,        \* the entry point this behaviour exercises
    pc,          \* the position inside that entry point
    lines,       \* applyFileChange / applyHunk: the working []string `lines`
    prevLines,   \* the value of `lines` before the last applyHunk call
    hunk,        \* the hunk of the last applyHunk call
    hi,          \* applyFileChange: the loop index i over change.Hunks
    change,      \* applyFileChange: the DiffChange being applied
    fs,          \* the files below repoPath: full path -> file
    ioLog,       \* the os.ReadFile / os.WriteFile calls made so far, in order
    diffText,    \* applyDiff: its argument diffOutput
    changes,     \* applyDiff: the []DiffChange parseDiff returned
    ci,          \* applyDiff: the index of the next change to apply (1-based)
    result,      \* the value the entry point returned, kind "none" before it returns
    response,    \* ExecuteTools: its argument response
    respLines,   \* ExecuteTools: lines, the response split at its newlines
    li,          \* ExecuteTools: the index of the next line of the response (1-based)
    toolCount,   \* ExecuteTools: toolCount
    results,     \* ExecuteTools: the strings written to the builder `results`, in order
    calls,       \* the handler calls made so far, in order
    summary,     \* ExecuteTools: the summary line printed after the scan, empty before
    respBody,    \* SendToOllamaWithCallback: the bytes of resp.Body
    transport,   \* what the HTTP exchange does: how the POST ends, which read fails
    callbacks,   \* the chunks passed to chunkCallback so far, in order
    ret,         \* the values SendToOllamaWithCallback returned
    streamChannel,  \* the chunks in the buffer of streamChannel, oldest first
    closed,      \* runBatch: close(streamChannel) was executed
    producers,   \* the goroutines that call SendToOllamaWithCallback, in start order
    scannerInput,   \* runBatch: the texts passed to tools.ExecuteTools, in order
    toolsEnabled,   \* runBatch: its parameter toolsEnabled
    input,       \* REPLModel.input
    history,     \* REPLModel.history
    historyIndex,   \* REPLModel.historyIndex
    conversationHistory,   \* REPLModel.conversationHistory
    processing,  \* REPLModel.processing
    quitting,    \* REPLModel.quitting
    cmds,        \* the tea.Cmd values Update returned that the runtime has not run yet
    spinnerFrame,   \* REPLModel.spinnerFrame
    tickCmds     \* the tea.Tick commands returned and not yet delivered as a tickMsg

vars == << mode, pc, lines, prevLines, hunk, hi, change, fs, ioLog, diffText, changes, ci,
           result, response, respLines, li, toolCount, results, calls, summary,
           respBody, transport, callbacks, ret, streamChannel, closed, producers, scannerInput, toolsEnabled,
           input, history, historyIndex, conversationHistory, processing, quitting, cmds,
           spinnerFrame, tickCmds >>

hunkVars  == << lines, prevLines, hunk, hi, change >>
diffVars  == << diffText, changes, ci, result >>
toolVars  == << response, respLines, li, toolCount, results, calls, summary >>
ollamaVars == << respBody, transport, callbacks, ret >>
batchVars == << streamChannel, closed, producers, scannerInput, toolsEnabled >>
tickVars  == << spinnerFrame, tickCmds >>
replVars  == << input, history, historyIndex, conversationHistory, processing, quitting, cmds,
                tickVars >>
chatVars  == << ollamaVars, batchVars, replVars >>

-----------------------------------------------------------------------------
(* Bounds *)

MaxLines == 3      \* lines of a file
MaxSpare == 2      \* spare capacity of a []string given to applyHunk
MaxStart == 5      \* largest OldStart of a hunk given to applyHunk
MaxCount == 2      \* largest OldCount of a hunk
MaxBody  == 2      \* DiffLines of a hunk given to applyHunk
MaxHunks == 2      \* hunks of the DiffChange given to applyFileChange
MaxFiles == 3      \* file sections of a diff text given to applyDiff
MaxRespLines == 3  \* lines of a response given to ExecuteTools
MaxDiffLines == 4  \* lines of a diff text given to parseDiff
MaxTokenLen == 3   \* characters of a range token of a hunk header
MaxContentLines == 2 \* lines of the hunk body of a diff text given to parseDiff

-----------------------------------------------------------------------------
(* Strings *)

Min(a, b) == IF a < b THEN a ELSE b

RECURSIVE SeqsUpTo(_, _)
SeqsUpTo(S, n) ==
    IF n = 0 THEN { <<>> }
    ELSE LET shorter == SeqsUpTo(S, n - 1)
         IN  shorter \cup { Append(s, x) : s \in { t \in shorter : Len(t) = n - 1 }, x \in S }

\* strings.HasPrefix
HasPrefix(s, p) == Len(p) <= Len(s) /\ SubSeq(s, 1, Len(p)) = p

\* strings.TrimPrefix
TrimPrefix(s, p) == IF HasPrefix(s, p) THEN SubSeq(s, Len(p) + 1, Len(s)) ELSE s

\* strings.HasSuffix
HasSuffix(s, p) == Len(p) <= Len(s) /\ SubSeq(s, Len(s) - Len(p) + 1, Len(s)) = p

\* the white space strings.TrimSpace removes
WhiteSpace == { " ", "\t", "\r", "\n" }

RECURSIVE TrimLeft(_)
TrimLeft(s) == IF s # <<>> /\ Head(s) \in WhiteSpace THEN TrimLeft(Tail(s)) ELSE s

RECURSIVE TrimRight(_)
TrimRight(s) ==
    IF s # <<>> /\ s[Len(s)] \in WhiteSpace THEN TrimRight(SubSeq(s, 1, Len(s) - 1)) ELSE s

\* strings.TrimSpace
TrimSpace(s) == TrimRight(TrimLeft(s))

\* index of the first occurrence of the character c in s, 0 when there is none
IndexOf(s, c) ==
    IF \E i \in 1..Len(s) : s[i] = c
    THEN CHOOSE i \in 1..Len(s) : s[i] = c /\ \A j \in 1..(i - 1) : s[j] # c
    ELSE 0

RECURSIVE Split(_, _)
\* strings.Split(s, sep) for a one-character separator
Split(s, sep) ==
    LET i == IndexOf(s, sep)
    IN  IF i = 0 THEN << s >>
        ELSE << SubSeq(s, 1, i - 1) >> \o Split(SubSeq(s, i + 1, Len(s)), sep)

\* strings.SplitN(s, sep, 2)
SplitN2(s, sep) ==
    LET i == IndexOf(s, sep)
    IN  IF i = 0 THEN << s >>
        ELSE << SubSeq(s, 1, i - 1), SubSeq(s, i + 1, Len(s)) >>

RECURSIVE Join(_, _)
\* strings.Join(ls, sep)
Join(ls, sep) ==
    IF ls = <<>> THEN <<>>
    ELSE IF Len(ls) = 1 THEN ls[1]
    ELSE ls[1] \o sep \o Join(Tail(ls), sep)

Digits == << "0", "1", "2", "3", "4", "5", "6", "7", "8", "9" >>

IsDigit(c) == \E d \in 1..10 : Digits[d] = c

DigitVal(c) == (CHOOSE d \in 1..10 : Digits[d] = c) - 1

RECURSIVE DecVal(_)
DecVal(s) == IF s = <<>> THEN 0 ELSE 10 * DecVal(SubSeq(s, 1, Len(s) - 1)) + DigitVal(s[Len(s)])

\* strconv.Atoi with its error dropped: the value, or 0 when s is not a number
Atoi(s) ==
    LET signed == s # <<>> /\ Head(s) \in { "+", "-" }
        body   == IF signed THEN Tail(s) ELSE s
    IN  IF body = <<>> \/ \E i \in 1..Len(body) : ~IsDigit(body[i])
        THEN 0
        ELSE IF signed /\ Head(s) = "-" THEN 0 - DecVal(body) ELSE DecVal(body)

-----------------------------------------------------------------------------
(* Go slices of strings *)

\* a []string whose capacity equals its length (what strings.Split returns)
MkSlice(s) == [panic |-> FALSE, arr |-> s, len |-> Len(s)]

\* the run-time panic "slice bounds out of range"
PanicSlice == [panic |-> TRUE, arr |-> <<>>, len |-> 0]

Cap(sl) == Len(sl.arr)

\* the elements of a slice, in order
Elems(sl) == SubSeq(sl.arr, 1, sl.len)

\* capacity of the array append allocates when the old one is too small
GrowCap(oldCap, needed) == IF needed > 2 * oldCap THEN needed ELSE 2 * oldCap

\* append(sl, xs...): in place when the capacity allows, a fresh array otherwise
AppendSlice(sl, xs) ==
    LET n == sl.len + Len(xs)
    IN  IF n <= Cap(sl)
        THEN [panic |-> FALSE,
              arr   |-> [i \in 1..Cap(sl) |->
                            IF i > sl.len /\ i <= n THEN xs[i - sl.len] ELSE sl.arr[i]],
              len   |-> n]
        ELSE [panic |-> FALSE,
              arr   |-> [i \in 1..GrowCap(Cap(sl), n) |->
                            IF i <= sl.len THEN sl.arr[i]
                            ELSE IF i <= n THEN xs[i - sl.len]
                            ELSE <<>>],
              len   |-> n]

-----------------------------------------------------------------------------
(* applyHunk *)

RECURSIVE KeptLines(_)
\* the contents of the hunk's added and context lines, in hunk order
KeptLines(hl) ==
    IF hl = <<>> THEN <<>>
    ELSE LET l == Head(hl)
         IN  (IF l.Type = "+" \/ l.Type = " " THEN << l.Content >> ELSE <<>>)
             \o KeptLines(Tail(hl))

\* a removal that takes one line more than OldCount
RemoveOldOneMore(sl, h) ==
    LET start == h.OldStart - 1
        end   == Min(start + h.OldCount + 1, sl.len)
    IN  IF h.OldCount > 0
        THEN IF start < 0 \/ start > Cap(sl)
             THEN PanicSlice
             ELSE AppendSlice([sl EXCEPT !.len = start], SubSeq(sl.arr, end + 1, sl.len))
        ELSE sl

\* "Remove old lines": lines = append(lines[:start], lines[end:]...)
RemoveOld(sl, h) ==
    LET start == h.OldStart - 1
        end   == Min(start + h.OldCount, sl.len)
    IN  IF h.OldCount > 0
        THEN IF start < 0 \/ start > Cap(sl)
             THEN PanicSlice
             ELSE AppendSlice([sl EXCEPT !.len = start], SubSeq(sl.arr, end + 1, sl.len))
        ELSE sl

\* "Insert new lines": lines = append(lines[:start], append(newLines, lines[start:]...)...)
InsertNew(sl, h) ==
    LET start    == h.OldStart - 1
        newLines == KeptLines(h.Lines)
    IN  IF Len(newLines) > 0
        THEN IF start < 0 \/ start > sl.len
             THEN PanicSlice
             ELSE AppendSlice([sl EXCEPT !.len = start],
                              newLines \o SubSeq(sl.arr, start + 1, sl.len))
        ELSE sl

applyHunk(sl, h) ==
    LET removed == RemoveOld(sl, h)
    IN  IF removed.panic THEN PanicSlice ELSE InsertNew(removed, h)


-----------------------------------------------------------------------------
(* parseRange and parseDiff *)

\* a parseRange whose count is 0 when the token has no comma
parseRangeNoDefault(rangeStr) ==
    LET parts == Split(rangeStr, ",")
    IN  [start |-> Atoi(parts[1]),
         count |-> IF Len(parts) >= 2 THEN Atoi(parts[2]) ELSE 0]

\* parseRange: "10,5" -> (10, 5), "10" -> (10, 1)
parseRange(rangeStr) ==
    LET parts == Split(rangeStr, ",")
    IN  [start |-> Atoi(parts[1]),
         count |-> IF Len(parts) >= 2 THEN Atoi(parts[2]) ELSE 1]

OldFileMarker == << "-", "-", "-", " ", "a", "/" >>
NewFileMarker == << "+", "+", "+", " ", "b", "/" >>
HunkMarker    == << "@", "@" >>

\* a nil *DiffChange / *DiffHunk, and the values they point to otherwise
NilChange == [nil |-> TRUE, FilePath |-> <<>>, Hunks |-> <<>>]
NilHunk   == [nil |-> TRUE, OldStart |-> 0, OldCount |-> 0, NewStart |-> 0, NewCount |-> 0,
              Lines |-> <<>>]

\* the DiffHunk / DiffChange value a non-nil pointer refers to
HunkValue(ch) == [OldStart |-> ch.OldStart, OldCount |-> ch.OldCount,
                  NewStart |-> ch.NewStart, NewCount |-> ch.NewCount, Lines |-> ch.Lines]
ChangeValue(cc) == [FilePath |-> cc.FilePath, Hunks |-> cc.Hunks]

\* the parser's locals before the first line
ParseStart == [changes |-> <<>>, cc |-> NilChange, ch |-> NilHunk, failed |-> FALSE]

\* an append that puts the open hunk before the hunks already there
WithOpenHunkFirst(cc, ch) ==
    IF ch.nil THEN cc ELSE [cc EXCEPT !.Hunks = << HunkValue(ch) >> \o @]

\* currentChange with the open hunk appended, when there is one
WithOpenHunk(cc, ch) ==
    IF ch.nil THEN cc ELSE [cc EXCEPT !.Hunks = Append(@, HunkValue(ch))]

\* the "--- a/" branch
ParseFileHeader(st, line) ==
    [st EXCEPT
        !.changes = IF st.cc.nil THEN @ ELSE Append(@, ChangeValue(WithOpenHunk(st.cc, st.ch))),
        !.cc      = [nil |-> FALSE, FilePath |-> TrimPrefix(line, OldFileMarker), Hunks |-> <<>>],
        !.ch      = NilHunk]

\* a "+++ b/" branch that does not compare the paths
ParseNewFileHeaderLenient(st, line) == st

\* the "+++ b/" branch
ParseNewFileHeader(st, line) ==
    IF ~st.cc.nil /\ st.cc.FilePath # TrimPrefix(line, NewFileMarker)
    THEN [st EXCEPT !.failed = TRUE]
    ELSE st

\* the "@@" branch
ParseHunkHeader(st, line) ==
    LET cc1   == IF ~st.ch.nil /\ ~st.cc.nil THEN WithOpenHunk(st.cc, st.ch) ELSE st.cc
        parts == Split(line, " ")
        old   == parseRange(TrimPrefix(parts[2], << "-" >>))
        new   == parseRange(TrimPrefix(parts[3], << "+" >>))
    IN  IF Len(parts) < 3
        THEN [st EXCEPT !.cc = cc1]
        ELSE [st EXCEPT !.cc = cc1,
                        !.ch = [nil |-> FALSE, OldStart |-> old.start, OldCount |-> old.count,
                                NewStart |-> new.start, NewCount |-> new.count, Lines |-> <<>>]]

\* the "Content lines" branch
ParseContentLine(st, line) ==
    LET dl == IF HasPrefix(line, << "+" >>)
              THEN [Type |-> "+", Content |-> TrimPrefix(line, << "+" >>)]
              ELSE IF HasPrefix(line, << "-" >>)
              THEN [Type |-> "-", Content |-> TrimPrefix(line, << "-" >>)]
              ELSE [Type |-> " ", Content |-> line]
    IN  IF st.ch.nil THEN st ELSE [st EXCEPT !.ch.Lines = Append(@, dl)]

\* one iteration of parseDiff's loop over the lines
ParseLine(st, raw) ==
    LET line == TrimSpace(raw)
    IN  IF line = <<>> THEN st
        ELSE IF HasPrefix(line, OldFileMarker) THEN ParseFileHeader(st, line)
        ELSE IF HasPrefix(line, NewFileMarker) THEN ParseNewFileHeader(st, line)
        ELSE IF HasPrefix(line, HunkMarker) THEN ParseHunkHeader(st, line)
        ELSE ParseContentLine(st, line)

RECURSIVE ParseLines(_, _)
\* the loop: it returns at the first mismatched "+++ b/" line
ParseLines(st, ls) ==
    IF ls = <<>> \/ st.failed THEN st ELSE ParseLines(ParseLine(st, Head(ls)), Tail(ls))

\* parseDiff: ([]DiffChange, error)
parseDiff(diffOutput) ==
    LET st == ParseLines(ParseStart, Split(diffOutput, "\n"))
    IN  IF st.failed
        THEN [changes |-> <<>>, err |-> TRUE]
        ELSE [changes |-> IF st.cc.nil THEN st.changes
                          ELSE Append(st.changes, ChangeValue(WithOpenHunk(st.cc, st.ch))),
              err     |-> FALSE]

-----------------------------------------------------------------------------
(* The file system, applyFileChange and applyDiff *)

RepoPath == << "r" >>

\* filepath.Join(dir, p): an empty p and "." name dir itself; filepath.Clean leaves the
\* other names used here as they are
JoinPath(dir, p) == IF p = << >> \/ p = << "." >> THEN dir ELSE dir \o << "/" >> \o p

NoFile == [exists |-> FALSE, writable |-> FALSE, data |-> <<>>]

\* the file at a full path; a path the file system does not hold is a missing file
FileAt(files, path) == IF path \in DOMAIN files THEN files[path] ELSE NoFile

\* the files after a successful os.WriteFile(path, data, 0644)
PutFile(files, path, data) ==
    [q \in (DOMAIN files) \cup { path } |->
        IF q = path THEN [exists |-> TRUE, writable |-> TRUE, data |-> data] ELSE files[q]]

ReadCall(path)  == [op |-> "read", path |-> path]
WriteCall(path) == [op |-> "write", path |-> path]

Result(kind, path) == [kind |-> kind, path |-> path]
NoResult == Result("none", <<>>)

\* lines := strings.Split(string(content), "\n")
ReadLines(data) == MkSlice(Split(data, "\n"))

\* a loop that visits the hunks first to last
HunkAtForward(hs, i) == hs[Len(hs) - i]

\* hunk := change.Hunks[i], for the 0-based index i
HunkAt(hs, i) == hs[i + 1]

RECURSIVE ApplyHunks(_, _, _)
\* for i := len(change.Hunks) - 1; i >= 0; i-- { lines = applyHunk(lines, change.Hunks[i]) }
ApplyHunks(sl, hs, i) ==
    IF i < 0 \/ sl.panic THEN sl ELSE ApplyHunks(applyHunk(sl, HunkAt(hs, i)), hs, i - 1)

\* a join that always gets a newline appended
NewContentAlways(sl) == Join(Elems(sl), << "\n" >>) \o << "\n" >>

\* newContent: the lines joined, and a newline added unless the text ends with one
NewContent(sl) ==
    LET joined == Join(Elems(sl), << "\n" >>)
    IN  IF HasSuffix(joined, << "\n" >>) THEN joined ELSE joined \o << "\n" >>

\* an applyFileChange that opens its file for writing, creating it, before it reads it
applyFileChangeCreating(c, files) ==
    LET filePath == JoinPath(RepoPath, c.FilePath)
    IN  IF ~FileAt(files, filePath).exists
        THEN [kind |-> "read error", files |-> PutFile(files, filePath, << >>),
              log |-> << ReadCall(filePath) >>]
        ELSE [kind |-> "ok", files |-> files, log |-> << ReadCall(filePath), WriteCall(filePath) >>]

\* applyFileChange: the error returned ("ok" for nil), the files and the I/O calls after it.
\* os.WriteFile fails when it cannot open the file for writing, which leaves the file as it is.
applyFileChange(c, files) ==
    LET filePath == JoinPath(RepoPath, c.FilePath)
        file     == FileAt(files, filePath)
        sl       == ApplyHunks(ReadLines(file.data), c.Hunks, Len(c.Hunks) - 1)
    IN  IF ~file.exists
        THEN [kind |-> "read error", files |-> files, log |-> << ReadCall(filePath) >>]
        ELSE IF sl.panic
        THEN [kind |-> "panic", files |-> files, log |-> << ReadCall(filePath) >>]
        ELSE IF ~file.writable
        THEN [kind |-> "write error", files |-> files,
              log |-> << ReadCall(filePath), WriteCall(filePath) >>]
        ELSE [kind |-> "ok", files |-> PutFile(files, filePath, NewContent(sl)),
              log |-> << ReadCall(filePath), WriteCall(filePath) >>]

RECURSIVE ApplyChanges(_, _, _)
\* applyDiff's loop "for _, change := range changes": it returns at the first error
ApplyChanges(cs, files, log) ==
    IF cs = <<>> THEN [result |-> Result("ok", <<>>), files |-> files, log |-> log]
    ELSE LET r == applyFileChange(Head(cs), files)
         IN  IF r.kind = "ok"
             THEN ApplyChanges(Tail(cs), r.files, log \o r.log)
             ELSE [result |-> Result(r.kind, Head(cs).FilePath), files |-> r.files,
                   log |-> log \o r.log]

\* applyDiff: parse, then apply each change
applyDiff(diffOutput, files) ==
    LET parsed == parseDiff(diffOutput)
    IN  IF parsed.err
        THEN [result |-> Result("parse error", <<>>), files |-> files, log |-> <<>>]
        ELSE ApplyChanges(parsed.changes, files, <<>>)

-----------------------------------------------------------------------------
(* The handlers of ExecuteTools *)

\* fmt.Sprintf(text, args...), or the literal text when there are no arguments
Chunk(text, args) == [text |-> text, args |-> args]

\* what a handler returns: its text, whether it reports a failure, the files and the
\* os.ReadFile / os.WriteFile calls after it
Handled(chunk, failed, files, log) ==
    [chunk |-> chunk, failed |-> failed, panic |-> FALSE, files |-> files, log |-> log]

\* fullPath: the path itself when it starts with "/", filepath.Join(repoPath, path) otherwise
FullPath(path) == IF HasPrefix(path, << "/" >>) THEN path ELSE JoinPath(RepoPath, path)

\* the names below repoPath, in the order os.ReadDir and filepath.Walk visit them
RepoNames == << << "f" >>, << "g" >> >>

\* the names of the files that exist below repoPath, in that order
RepoEntries(files) ==
    SelectSeq(RepoNames, LAMBDA n : FileAt(files, JoinPath(RepoPath, n)).exists)

\* strings.Contains
Contains(str, sub) ==
    \E i \in 0..(Len(str) - Len(sub)) : SubSeq(str, i + 1, i + Len(sub)) = sub

\* executeCommand and testCommand: sh -c command, which exits with or without an error
executeCommand(command, outcome, files) ==
    IF outcome = "fail"
    THEN Handled(Chunk("Error executing command: %v\nOutput: %s", << >>), TRUE, files, << >>)
    ELSE Handled(Chunk("Command executed successfully:\n%s", << >>), FALSE, files, << >>)

testCommand(command, outcome, files) ==
    IF outcome = "fail"
    THEN Handled(Chunk("Command failed: %v\nOutput: %s", << >>), TRUE, files, << >>)
    ELSE Handled(Chunk("Command works successfully:\n%s", << >>), FALSE, files, << >>)

readFileContent(filePath, files) ==
    LET fullPath == FullPath(filePath)
        file     == FileAt(files, fullPath)
    IN  IF ~file.exists
        THEN Handled(Chunk("Error reading file: %v", << >>), TRUE, files, << ReadCall(fullPath) >>)
        ELSE Handled(Chunk("File contents:\n%s", << file.data >>), FALSE, files,
                     << ReadCall(fullPath) >>)

\* listDirectory: repoPath is the only directory
listDirectory(dir, files) ==
    IF FullPath(dir) # RepoPath
    THEN Handled(Chunk("Error reading directory: %v", << >>), TRUE, files, << >>)
    ELSE Handled(Chunk("Directory contents:\n", RepoEntries(files)), FALSE, files, << >>)

\* searchFiles: filepath.Walk from fullPath, reading every file it meets
searchFiles(pattern, directory, files) ==
    LET fullPath == FullPath(directory)
        visited  == IF fullPath = RepoPath THEN RepoEntries(files)
                    ELSE SelectSeq(RepoNames, LAMBDA n : JoinPath(RepoPath, n) = fullPath
                                                         /\ FileAt(files, fullPath).exists)
        found    == SelectSeq(visited, LAMBDA n :
                        Contains(FileAt(files, JoinPath(RepoPath, n)).data, pattern))
    IN  IF fullPath # RepoPath /\ ~FileAt(files, fullPath).exists
        THEN Handled(Chunk("Error searching files: %v", << >>), TRUE, files, << >>)
        ELSE Handled(Chunk("Search results:\n", found), FALSE, files,
                     [i \in 1..Len(visited) |-> ReadCall(JoinPath(RepoPath, visited[i]))])

\* generateDiff: the request to the model fails, or answers with or without a diff
generateDiff(description, outcome, files) ==
    IF outcome = "fail"
    THEN Handled(Chunk("Error generating diff: %v", << >>), TRUE, files, << >>)
    ELSE IF outcome = "diff"
    THEN Handled(Chunk("Generated diff:\n\n%s", << >>), FALSE, files, << >>)
    ELSE Handled(Chunk("LLM response (may not be valid diff format):\n\n%s\n\nNote: ...", << >>),
                 FALSE, files, << >>)

\* what applyDiffTool makes of the error of applyDiff
DiffToolText(r) ==
    IF r.result.kind = "panic"
    THEN [Handled(Chunk("", << >>), TRUE, r.files, r.log) EXCEPT !.panic = TRUE]
    ELSE IF r.result.kind # "ok"
    THEN Handled(Chunk("Error applying diff: %v", << r.result >>), TRUE, r.files, r.log)
    ELSE Handled(Chunk("Diff applied successfully to the repository", << >>), FALSE,
                 r.files, r.log)

applyDiffTool(diffContent, files) == DiffToolText(applyDiff(diffContent, files))

\* filepath.Dir, for a path without a trailing "/"
Dir(path) ==
    LET cuts == { i \in 1..Len(path) : path[i] = "/" }
    IN  IF cuts = { } THEN << "." >>
        ELSE SubSeq(path, 1, (CHOOSE i \in cuts : \A j \in cuts : j <= i) - 1)

\* createFile: os.MkdirAll fails when the directory is a file, os.WriteFile when the target
\* is a directory or a file that cannot be written
createFile(filePath, content, files) ==
    LET fullPath == FullPath(filePath)
        file     == FileAt(files, fullPath)
    IN  IF FileAt(files, Dir(fullPath)).exists
        THEN Handled(Chunk("Error creating directory: %v", << >>), TRUE, files, << >>)
        ELSE IF fullPath = RepoPath \/ (file.exists /\ ~file.writable)
        THEN Handled(Chunk("Error creating file: %v", << >>), TRUE, files,
                     << WriteCall(fullPath) >>)
        ELSE Handled(Chunk("File created successfully: %s", << filePath >>), FALSE,
                     PutFile(files, fullPath, content), << WriteCall(fullPath) >>)

-----------------------------------------------------------------------------
(* ExecuteTools *)

RUN_COMMAND   == << "R", "U", "N", "_", "C", "O", "M", "M", "A", "N", "D", ":" >>
READ_FILE     == << "R", "E", "A", "D", "_", "F", "I", "L", "E", ":" >>
LIST_DIR      == << "L", "I", "S", "T", "_", "D", "I", "R", ":" >>
TEST_COMMAND  == << "T", "E", "S", "T", "_", "C", "O", "M", "M", "A", "N", "D", ":" >>
SEARCH_FILES  == << "S", "E", "A", "R", "C", "H", "_", "F", "I", "L", "E", "S", ":" >>
GENERATE_DIFF == << "G", "E", "N", "E", "R", "A", "T", "E", "_", "D", "I", "F", "F", ":" >>
APPLY_DIFF    == << "A", "P", "P", "L", "Y", "_", "D", "I", "F", "F", ":" >>
CREATE_FILE   == << "C", "R", "E", "A", "T", "E", "_", "F", "I", "L", "E", ":" >>
END_FILE      == << "E", "N", "D", "_", "F", "I", "L", "E" >>

Banner == << Chunk("Tool Execution Results:\n", << >>), Chunk("=====================\n\n", << >>) >>

\* a builder that starts empty
WriteNoBanner(out) == out

\* results.WriteString of the two banner lines
WriteBanner(out) == out \o Banner

\* an argument that keeps the white space after the prefix
ArgumentUntrimmed(line, prefix) == TrimPrefix(line, prefix)

\* the argument of a one-argument directive: the rest of the line, trimmed
Argument(line, prefix) == TrimSpace(TrimPrefix(line, prefix))

\* a handler call, made while the line with index `at` is scanned; when the handler has
\* returned the call also holds whether it failed and which entries of the log are its own
Call(tool, args, at) ==
    [tool |-> tool, args |-> args, line |-> at, failed |-> FALSE, ioFrom |-> 0, ioTo |-> 0]

\* "Collect content until END_FILE": for i := toolCount; i < len(lines); i++
RECURSIVE ContentLinesNoBlank(_, _)
\* a collection that leaves out the blank lines
ContentLinesNoBlank(ls, i) ==
    IF i >= Len(ls) \/ TrimSpace(ls[i + 1]) = END_FILE THEN << >>
    ELSE (IF ls[i + 1] = << >> THEN << >> ELSE << ls[i + 1] >>) \o ContentLinesNoBlank(ls, i + 1)

RECURSIVE ContentLines(_, _)
ContentLines(ls, i) ==
    IF i >= Len(ls) \/ TrimSpace(ls[i + 1]) = END_FILE THEN << >>
    ELSE << ls[i + 1] >> \o ContentLines(ls, i + 1)

\* a builder that puts a new block right after the banner
WriteBlockFirst(out, label, chunk) ==
    SubSeq(out, 1, 2) \o << label, chunk, Chunk("\n", << >>) >> \o SubSeq(out, 3, Len(out))

\* the three results.WriteString calls of a directive
WriteBlock(out, label, chunk) == out \o << label, chunk, Chunk("\n", << >>) >>

\* the outcomes of the world a handler depends on, besides the files
Outcomes(line) ==
    IF HasPrefix(line, RUN_COMMAND) \/ HasPrefix(line, TEST_COMMAND) THEN { "ok", "fail" }
    ELSE IF HasPrefix(line, GENERATE_DIFF) THEN { "diff", "text", "fail" }
    ELSE { "ok" }

\* the state of the scan: toolCount, results, the files, the calls made
Scan(tc, out, files, log, cs) ==
    [toolCount |-> tc, results |-> out, files |-> files, log |-> log, calls |-> cs,
     panic |-> FALSE]

\* a scan that a failed handler ends
DispatchedAborting(sc, call, label, h) ==
    [toolCount |-> sc.toolCount + 1,
     results   |-> IF h.panic THEN sc.results ELSE WriteBlock(sc.results, label, h.chunk),
     files     |-> h.files,
     log       |-> sc.log \o h.log,
     calls     |-> Append(sc.calls, [call EXCEPT !.failed = h.failed,
                                                 !.ioFrom = Len(sc.log) + 1,
                                                 !.ioTo = Len(sc.log) + Len(h.log)]),
     panic     |-> h.panic \/ h.failed]

\* a directive that was dispatched: toolCount++, the handler runs and returns, and the
\* block is written; only a panic of the handler leaves the loop
Dispatched(sc, call, label, h) ==
    [toolCount |-> sc.toolCount + 1,
     results   |-> IF h.panic THEN sc.results ELSE WriteBlock(sc.results, label, h.chunk),
     files     |-> h.files,
     log       |-> sc.log \o h.log,
     calls     |-> Append(sc.calls, [call EXCEPT !.failed = h.failed,
                                                 !.ioFrom = Len(sc.log) + 1,
                                                 !.ioTo = Len(sc.log) + Len(h.log)]),
     panic     |-> h.panic]

\* a scan that counts the lines it does not recognize
IgnoredCounted(sc) == [sc EXCEPT !.toolCount = @ + 1]

\* a blank line (continue) and a line none of the if statements takes: nothing changes
Ignored(sc) == sc

\* the body of the loop for one line of the response; no prefix is a prefix of another and
\* line is not assigned after the trim, so at most one of the if statements is taken
ScanLine(sc, ls, at, outcome) ==
    LET line == TrimSpace(ls[at])
        tc   == sc.toolCount + 1
    IN  IF line = << >> THEN Ignored(sc)
        ELSE IF HasPrefix(line, RUN_COMMAND)
        THEN LET command == Argument(line, RUN_COMMAND)
             IN  Dispatched(sc, Call("executeCommand", << command >>, at),
                            Chunk("RUN_COMMAND: %s\n", << command >>),
                            executeCommand(command, outcome, sc.files))
        ELSE IF HasPrefix(line, READ_FILE)
        THEN LET filePath == Argument(line, READ_FILE)
             IN  Dispatched(sc, Call("readFileContent", << filePath >>, at),
                            Chunk("READ_FILE: %s\n", << filePath >>),
                            readFileContent(filePath, sc.files))
        ELSE IF HasPrefix(line, LIST_DIR)
        THEN LET dir == Argument(line, LIST_DIR)
             IN  Dispatched(sc, Call("listDirectory", << dir >>, at),
                            Chunk("LIST_DIR: %s\n", << dir >>),
                            listDirectory(dir, sc.files))
        ELSE IF HasPrefix(line, TEST_COMMAND)
        THEN LET command == Argument(line, TEST_COMMAND)
             IN  Dispatched(sc, Call("testCommand", << command >>, at),
                            Chunk("TEST_COMMAND: %s\n", << command >>),
                            testCommand(command, outcome, sc.files))
        ELSE IF HasPrefix(line, SEARCH_FILES)
        THEN LET parts == SplitN2(TrimPrefix(line, SEARCH_FILES), " ")
             IN  IF Len(parts) = 2
                 THEN LET pattern   == TrimSpace(parts[1])
                          directory == TrimSpace(parts[2])
                      IN  Dispatched(sc, Call("searchFiles", << pattern, directory >>, at),
                                     Chunk("SEARCH_FILES: %s in %s\n", << pattern, directory >>),
                                     searchFiles(pattern, directory, sc.files))
                 ELSE [sc EXCEPT !.toolCount = tc]
        ELSE IF HasPrefix(line, GENERATE_DIFF)
        THEN LET description == Argument(line, GENERATE_DIFF)
             IN  Dispatched(sc, Call("generateDiff", << description >>, at),
                            Chunk("GENERATE_DIFF: %s\n", << description >>),
                            generateDiff(description, outcome, sc.files))
        ELSE IF HasPrefix(line, APPLY_DIFF)
        THEN LET diffContent == Argument(line, APPLY_DIFF)
             IN  Dispatched(sc, Call("applyDiffTool", << diffContent >>, at),
                            Chunk("APPLY_DIFF: Applied\n", << >>),
                            applyDiffTool(diffContent, sc.files))
        ELSE IF HasPrefix(line, CREATE_FILE)
        THEN LET filePath == Argument(line, CREATE_FILE)
                 content  == Join(ContentLines(ls, tc), << "\n" >>)
             IN  Dispatched(sc, Call("createFile", << filePath, content >>, at),
                            Chunk("CREATE_FILE: %s\n", << filePath >>),
                            createFile(filePath, content, sc.files))
        ELSE Ignored(sc)

-----------------------------------------------------------------------------
(* Inputs *)

NoHunk == [OldStart |-> 0, OldCount |-> 0, NewStart |-> 0, NewCount |-> 0, Lines |-> <<>>]

NoChange == [FilePath |-> <<>>, Hunks |-> <<>>]

FileLineSet == { << "a" >>, << "b" >> }

DiffLineSet ==
    { [Type |-> "+", Content |-> << "X" >>],
      [Type |-> "-", Content |-> << "a" >>],
      [Type |-> " ", Content |-> << "Z" >>] }

MkHunk(s, c, body) ==
    [OldStart |-> s, OldCount |-> c, NewStart |-> s, NewCount |-> Len(KeptLines(body)),
     Lines |-> body]

\* the hunks given to a single applyHunk call
HunkSet ==
    { MkHunk(s, c, b) : s \in 0..MaxStart, c \in (-1)..MaxCount,
                        b \in SeqsUpTo(DiffLineSet, MaxBody) }

\* a []string with n spare slots of capacity, which hold the zero string
SpareSlice(s, n) == [panic |-> FALSE, arr |-> s \o [i \in 1..n |-> <<>>], len |-> Len(s)]

-----------------------------------------------------------------------------
(* SpecHunk: one applyHunk call on any slice and any hunk *)

\* the state of the streaming path while it is not exercised
NoReturn == [returned |-> FALSE, response |-> << >>, err |-> "nil"]

\* an exchange that answers 200 and whose reads do not fail
GoodTransport == [post |-> "ok", failAt |-> 0]

OllamaIdle ==
    /\ respBody = << >>
    /\ transport = GoodTransport
    /\ callbacks = << >>
    /\ ret = NoReturn

BatchIdle ==
    /\ streamChannel = << >>
    /\ closed = FALSE
    /\ producers = << >>
    /\ scannerInput = << >>
    /\ toolsEnabled = FALSE

ReplIdle ==
    /\ input = << >>
    /\ history = << >>
    /\ historyIndex = -1
    /\ conversationHistory = << >>
    /\ processing = FALSE
    /\ quitting = FALSE
    /\ cmds = << >>
    /\ spinnerFrame = 0
    /\ tickCmds = 0

ChatIdle == OllamaIdle /\ BatchIdle /\ ReplIdle

\* the variables of ExecuteTools, in the behaviours that do not run it
ToolsIdle ==
    /\ response = << >>
    /\ respLines = << >>
    /\ li = 0
    /\ toolCount = 0
    /\ results = << >>
    /\ calls = << >>
    /\ summary = << >>

InitHunk ==
    /\ mode = "applyHunk"
    /\ pc = "call"
    /\ \E s \in SeqsUpTo(FileLineSet, MaxLines), n \in 0..MaxSpare : lines = SpareSlice(s, n)
    /\ prevLines = lines
    /\ hunk \in HunkSet
    /\ hi = 0
    /\ change = NoChange
    /\ fs = << >>
    /\ ioLog = << >>
    /\ diffText = << >>
    /\ changes = << >>
    /\ ci = 0
    /\ result = NoResult
    /\ ToolsIdle
    /\ ChatIdle

\* lines = applyHunk(lines, hunk)
CallApplyHunk ==
    /\ mode = "applyHunk"
    /\ pc = "call"
    /\ lines' = applyHunk(lines, hunk)
    /\ pc' = IF lines'.panic THEN "panic" ELSE "done"
    /\ UNCHANGED << mode, prevLines, hunk, hi, change, fs, ioLog, diffText, changes, ci, result,
                    toolVars >>
    /\ UNCHANGED chatVars

NextHunk == CallApplyHunk

SpecHunk == InitHunk /\ [][NextHunk]_vars

-----------------------------------------------------------------------------
(* SpecChange: applyFileChange on one file, one statement group per step *)

Letters == << "a", "b", "c", "d", "e", "f" >>

\* the file texts: up to MaxLines distinct lines, with and without a final newline
FileDataSet ==
    LET body(n) == Join([i \in 1..n |-> << Letters[i] >>], << "\n" >>)
    IN  { body(n) : n \in 0..MaxLines } \cup { body(n) \o << "\n" >> : n \in 0..MaxLines }

\* the DiffLines of the hunks of a change; OldCount counts the removed and context lines
ChangeBodySet ==
    { << [Type |-> "+", Content |-> << "X" >>] >>,
      << [Type |-> "-", Content |-> << "a" >>] >>,
      << [Type |-> "-", Content |-> << "a" >>], [Type |-> "+", Content |-> << "X" >>] >>,
      << [Type |-> "-", Content |-> << "a" >>], [Type |-> "-", Content |-> << "b" >>],
         [Type |-> "+", Content |-> << "X" >>] >>,
      << [Type |-> " ", Content |-> << "Z" >>], [Type |-> "+", Content |-> << "X" >>],
         [Type |-> "+", Content |-> << "Y" >>] >> }

ChangeHunkSet ==
    { MkHunk(s, Len(SelectSeq(b, LAMBDA l : l.Type # "+")), b) :
        s \in 1..(MaxLines + 1), b \in ChangeBodySet }

FileStateSet ==
    { NoFile } \cup { [exists |-> TRUE, writable |-> w, data |-> d] :
                        w \in BOOLEAN, d \in FileDataSet }

TargetPath == JoinPath(RepoPath, << "f" >>)

InitChange ==
    /\ mode = "applyFileChange"
    /\ pc = "read"
    /\ lines = MkSlice(<< >>)
    /\ prevLines = lines
    /\ hunk = NoHunk
    /\ hi = 0
    /\ \E hs \in SeqsUpTo(ChangeHunkSet, MaxHunks) : change = [FilePath |-> << "f" >>, Hunks |-> hs]
    /\ \E f \in FileStateSet : fs = [q \in { TargetPath } |-> f]
    /\ ioLog = << >>
    /\ diffText = << >>
    /\ changes = << >>
    /\ ci = 0
    /\ result = NoResult
    /\ ToolsIdle
    /\ ChatIdle

\* content, err := os.ReadFile(filePath); lines := strings.Split(string(content), "\n")
ReadFile ==
    /\ mode = "applyFileChange"
    /\ pc = "read"
    /\ LET filePath == JoinPath(RepoPath, change.FilePath)
           file     == FileAt(fs, filePath)
       IN  /\ ioLog' = Append(ioLog, ReadCall(filePath))
           /\ IF file.exists
              THEN /\ lines' = ReadLines(file.data)
                   /\ prevLines' = ReadLines(file.data)
                   /\ hi' = Len(change.Hunks) - 1
                   /\ pc' = "loop"
                   /\ UNCHANGED result
              ELSE /\ result' = Result("read error", change.FilePath)
                   /\ pc' = "done"
                   /\ UNCHANGED << lines, prevLines, hi >>
    /\ UNCHANGED << mode, hunk, change, fs, diffText, changes, ci, toolVars >>
    /\ UNCHANGED chatVars

\* one iteration of the loop: lines = applyHunk(lines, change.Hunks[i])
ApplyNextHunk ==
    /\ mode = "applyFileChange"
    /\ pc = "loop"
    /\ hi >= 0
    /\ hunk' = HunkAt(change.Hunks, hi)
    /\ prevLines' = lines
    /\ lines' = applyHunk(lines, hunk')
    /\ hi' = hi - 1
    /\ pc' = IF lines'.panic THEN "panic" ELSE "loop"
    /\ UNCHANGED << mode, change, fs, ioLog, diffText, changes, ci, result, toolVars >>
    /\ UNCHANGED chatVars

\* after the loop: os.WriteFile(filePath, []byte(newContent), 0644) and return
WriteFile ==
    /\ mode = "applyFileChange"
    /\ pc = "loop"
    /\ hi < 0
    /\ LET filePath == JoinPath(RepoPath, change.FilePath)
       IN  /\ ioLog' = Append(ioLog, WriteCall(filePath))
           /\ IF FileAt(fs, filePath).writable
              THEN /\ fs' = PutFile(fs, filePath, NewContent(lines))
                   /\ result' = Result("ok", << >>)
              ELSE /\ fs' = fs
                   /\ result' = Result("write error", change.FilePath)
    /\ pc' = "done"
    /\ UNCHANGED << mode, lines, prevLines, hunk, hi, change, diffText, changes, ci, toolVars >>
    /\ UNCHANGED chatVars

NextChange == ReadFile \/ ApplyNextHunk \/ WriteFile

SpecChange == InitChange /\ [][NextChange]_vars

-----------------------------------------------------------------------------
(* SpecDiff: applyDiff on a diff text of several file sections, one file per step *)

DiffPathSet == { << "f" >>, << "g" >> }

\* "@@ -3,1 +3,1 @@", "-c", "+X": inside the file f, beyond the end of the file g
HunkBlock ==
    << << "@", "@", " ", "-", "3", ",", "1", " ", "+", "3", ",", "1", " ", "@", "@" >>,
       << "-", "c" >>,
       << "+", "X" >> >>

\* the lines of one file section: "--- a/p", "+++ b/q", then a body
SectionLines(p, q, body) == << OldFileMarker \o p, NewFileMarker \o q >> \o body

SectionSet ==
    { SectionLines(p, q, body) :
        p \in DiffPathSet, q \in DiffPathSet, body \in { << >>, HunkBlock } }

RECURSIVE Flatten(_)
Flatten(ss) == IF ss = << >> THEN << >> ELSE Head(ss) \o Flatten(Tail(ss))

\* the diff texts: up to MaxFiles sections, every line ended by a newline
DiffTextSet ==
    { Flatten([i \in 1..Len(ls) |-> ls[i] \o << "\n" >>]) :
        ls \in { Flatten(ss) : ss \in SeqsUpTo(SectionSet, MaxFiles) } }

\* the lines a diff adds: plain, with a blank inside, indented, with a blank at its end, empty
AddedLineSet ==
    { << "x" >>, << "x", " ", "y" >>, << " ", " ", "x" >>, << "x", " " >>, << >> }

\* the diffs that insert one line into the empty file e
InsertTextSet ==
    { Join(<< OldFileMarker \o << "e" >>, NewFileMarker \o << "e" >>,
              << "@", "@", " ", "-", "1", ",", "0", " ", "+", "1", ",", "1", " ", "@", "@" >>,
              << "+" >> \o added >>, << "\n" >>) : added \in AddedLineSet }

\* the diffs of one file whose hunk header has a non-numeric old range ("x", "x,x", "x,1"),
\* with an added line and without
MalformedTextSet ==
    { Join(<< OldFileMarker \o p, NewFileMarker \o p,
              << "@", "@", " ", "-" >> \o old
                 \o << " ", "+", "1", ",", "1", " ", "@", "@" >> >> \o body, << "\n" >>) :
        p \in DiffPathSet,
        old \in { << "x" >>, << "x", ",", "x" >>, << "x", ",", "1" >> },
        body \in { << >>, << << "+", "X" >> >> } }

DiffFileData(p) ==
    IF p = << "f" >> THEN << "a", "\n", "b", "\n", "c", "\n" >> ELSE << "a" >>

\* each file is missing, read-only or writable
DiffFileStates(p) ==
    { NoFile,
      [exists |-> TRUE, writable |-> FALSE, data |-> DiffFileData(p)],
      [exists |-> TRUE, writable |-> TRUE, data |-> DiffFileData(p)] }

InitDiff ==
    /\ mode = "applyDiff"
    /\ pc = "parse"
    /\ lines = MkSlice(<< >>)
    /\ prevLines = lines
    /\ hunk = NoHunk
    /\ hi = 0
    /\ change = NoChange
    /\ \/ /\ \E ff \in DiffFileStates(<< "f" >>), fg \in DiffFileStates(<< "g" >>) :
                fs = [q \in { JoinPath(RepoPath, p) : p \in DiffPathSet } |->
                         IF q = JoinPath(RepoPath, << "f" >>) THEN ff ELSE fg]
          /\ diffText \in DiffTextSet \cup MalformedTextSet
       \/ /\ fs = [q \in { JoinPath(RepoPath, << "e" >>) } |->
                      [exists |-> TRUE, writable |-> TRUE, data |-> << >>]]
          /\ diffText \in InsertTextSet
    /\ ioLog = << >>
    /\ changes = << >>
    /\ ci = 1
    /\ result = NoResult
    /\ ToolsIdle
    /\ ChatIdle

\* changes, err := parseDiff(diffOutput); if err != nil { return ... }
ParseDiffStep ==
    /\ mode = "applyDiff"
    /\ pc = "parse"
    /\ LET parsed == parseDiff(diffText)
       IN  /\ changes' = parsed.changes
           /\ IF parsed.err
              THEN pc' = "done" /\ result' = Result("parse error", << >>)
              ELSE pc' = "apply" /\ result' = result
    /\ UNCHANGED << mode, lines, prevLines, hunk, hi, change, fs, ioLog, diffText, ci, toolVars >>
    /\ UNCHANGED chatVars

\* a loop that notes the error of a file and goes on with the next file
ApplyChangeStepResuming ==
    /\ mode = "applyDiff"
    /\ pc = "apply"
    /\ ci <= Len(changes)
    /\ LET r == applyFileChange(changes[ci], fs)
       IN  /\ fs' = r.files
           /\ ioLog' = ioLog \o r.log
           /\ ci' = ci + 1
           /\ IF r.kind = "ok"
              THEN pc' = "apply" /\ result' = result
              ELSE /\ pc' = IF r.kind = "panic" THEN "panic"
                            ELSE IF ci = Len(changes) THEN "done" ELSE "apply"
                   /\ result' = Result(r.kind, changes[ci].FilePath)
    /\ UNCHANGED << mode, lines, prevLines, hunk, hi, change, diffText, changes, toolVars >>
    /\ UNCHANGED chatVars

\* one iteration of "for _, change := range changes": applyFileChange(change, repoPath)
ApplyChangeStep ==
    /\ mode = "applyDiff"
    /\ pc = "apply"
    /\ ci <= Len(changes)
    /\ LET r == applyFileChange(changes[ci], fs)
       IN  /\ fs' = r.files
           /\ ioLog' = ioLog \o r.log
           /\ IF r.kind = "ok"
              THEN ci' = ci + 1 /\ pc' = "apply" /\ result' = result
              ELSE /\ ci' = ci
                   /\ pc' = IF r.kind = "panic" THEN "panic" ELSE "done"
                   /\ result' = Result(r.kind, changes[ci].FilePath)
    /\ UNCHANGED << mode, lines, prevLines, hunk, hi, change, diffText, changes, toolVars >>
    /\ UNCHANGED chatVars

\* the loop is over: return nil
ReturnNil ==
    /\ mode = "applyDiff"
    /\ pc = "apply"
    /\ ci > Len(changes)
    /\ pc' = "done"
    /\ result' = Result("ok", << >>)
    /\ UNCHANGED << mode, hunkVars, fs, ioLog, diffText, changes, ci, toolVars >>
    /\ UNCHANGED chatVars

NextDiff == ParseDiffStep \/ ApplyChangeStep \/ ReturnNil

SpecDiff == InitDiff /\ [][NextDiff]_vars

-----------------------------------------------------------------------------
(* SpecTools: ExecuteTools on a response of several lines, one line per step *)

\* the lines of a response: blank, a directive in lower case, and directives whose handlers
\* read and write the files
RespLineSet ==
    { << >>,
      << "r", "u", "n", "_", "c", "o", "m", "m", "a", "n", "d", ":", " ", "c" >>,
      << " ", " ", "R", "U", "N", "_", "C", "O", "M", "M", "A", "N", "D", ":", " ", " ", "c", " " >>,
      << "R", "E", "A", "D", "_", "F", "I", "L", "E", ":", " ", "f" >>,
      << "S", "E", "A", "R", "C", "H", "_", "F", "I", "L", "E", "S", ":", " ", "a", " ", "." >>,
      << "S", "E", "A", "R", "C", "H", "_", "F", "I", "L", "E", "S", ":", "a" >>,
      << "A", "P", "P", "L", "Y", "_", "D", "I", "F", "F", ":", " ", "-", "-", "-", " ", "a", "/", "f" >>,
      << "C", "R", "E", "A", "T", "E", "_", "F", "I", "L", "E", ":", " ", "g" >>,
      << "E", "N", "D", "_", "F", "I", "L", "E" >> }

\* the directives whose handlers leave the files alone
MoreLineSet ==
    { << "L", "I", "S", "T", "_", "D", "I", "R", ":", " ", "." >>,
      << "T", "E", "S", "T", "_", "C", "O", "M", "M", "A", "N", "D", ":", " ", "c" >>,
      << "G", "E", "N", "E", "R", "A", "T", "E", "_", "D", "I", "F", "F", ":", " ", "d" >>,
      << "S", "E", "A", "R", "C", "H", "_", "F", "I", "L", "E", "S", ":", "a", " ", "." >>,
      << "S", "E", "A", "R", "C", "H", "_", "F", "I", "L", "E", "S", ":", " ", "a" >>,
      << "A", "P", "P", "L", "Y", "_", "D", "I", "F", "F", ":", " ", "@", "@", " ", "-", "1",
         ",", "1", " ", "+", "1", ",", "0", " ", "@", "@" >> }

\* the lines around a create-file payload: the directive, the sentinel, a blank line and a
\* line with white space at both ends
PayloadLineSet ==
    { << >>,
      << "C", "R", "E", "A", "T", "E", "_", "F", "I", "L", "E", ":", " ", "g" >>,
      << "E", "N", "D", "_", "F", "I", "L", "E" >>,
      << " ", "x", " " >> }

\* the responses: one to MaxRespLines lines of either of the first two sets, or one line
\* more of the payload lines, joined with newlines
ResponseSet ==
    { Join(ls, << "\n" >>) :
        ls \in (SeqsUpTo(RespLineSet, MaxRespLines) \cup SeqsUpTo(MoreLineSet, MaxRespLines)
                   \cup SeqsUpTo(PayloadLineSet, MaxRespLines + 1)) \ { << >> } }

\* the file f is missing, read-only or writable, with the text "a"; the file g does not
\* exist yet
ToolsFileStates ==
    { [q \in { JoinPath(RepoPath, << "f" >>) } |-> ff] :
        ff \in { NoFile } \cup { [exists |-> TRUE, writable |-> w, data |-> << "a" >>] :
                                   w \in BOOLEAN } }

InitTools ==
    /\ mode = "ExecuteTools"
    /\ pc = "scan"
    /\ lines = MkSlice(<< >>)
    /\ prevLines = lines
    /\ hunk = NoHunk
    /\ hi = 0
    /\ change = NoChange
    /\ fs \in ToolsFileStates
    /\ ioLog = << >>
    /\ diffText = << >>
    /\ changes = << >>
    /\ ci = 1
    /\ result = NoResult
    /\ response \in ResponseSet
    /\ respLines = Split(response, "\n")
    /\ li = 1
    /\ toolCount = 0
    /\ results = WriteBanner(<< >>)
    /\ calls = << >>
    /\ summary = << >>
    /\ ChatIdle

\* one iteration of "for _, line := range lines", the handler call included
ScanStep ==
    /\ mode = "ExecuteTools"
    /\ pc = "scan"
    /\ li <= Len(respLines)
    /\ \E outcome \in Outcomes(TrimSpace(respLines[li])) :
          LET sc == ScanLine(Scan(toolCount, results, fs, ioLog, calls), respLines, li, outcome)
          IN  /\ toolCount' = sc.toolCount
              /\ results' = sc.results
              /\ fs' = sc.files
              /\ ioLog' = sc.log
              /\ calls' = sc.calls
              /\ li' = li + 1
              /\ pc' = IF sc.panic THEN "panic" ELSE "scan"
    /\ UNCHANGED << mode, hunkVars, diffVars, response, respLines, summary >>
    /\ UNCHANGED chatVars

\* after the loop: the count or the no-tools message goes to standard output, and
\* results.String() is returned
ReturnResults ==
    /\ mode = "ExecuteTools"
    /\ pc = "scan"
    /\ li > Len(respLines)
    /\ summary' = IF toolCount = 0
                  THEN << Chunk("No tools detected in LLM response", << >>) >>
                  ELSE << Chunk("Total tools executed: %d\n", << toolCount >>) >>
    /\ pc' = "done"
    /\ UNCHANGED << mode, hunkVars, diffVars, fs, ioLog, response, respLines, li, toolCount,
                    results, calls >>
    /\ UNCHANGED chatVars

NextTools == ScanStep \/ ReturnResults

SpecTools == InitTools /\ [][NextTools]_vars

-----------------------------------------------------------------------------
(* SpecParse: one parseDiff call on a diff text of any lines *)

\* the lines of a diff text: file headers, hunk headers with two, one and no range token
\* pairs, and content lines
ParseLineSet ==
    { << "-", "-", "-", " ", "a", "/", "f" >>,
      << "-", "-", "-", " ", "a", "/", "g" >>,
      << "+", "+", "+", " ", "b", "/", "f" >>,
      << "@", "@", " ", "-", "1", ",", "1", " ", "+", "1", ",", "1", " ", "@", "@" >>,
      << "@", "@", " ", "-", "2", " ", "+", "2", ",", "0", " ", "@", "@" >>,
      << "@", "@" >>,
      << "+", "x" >>,
      << "-", "a" >> }

\* the range tokens of a hunk header: digits, commas and a letter
RangeTokenSet == SeqsUpTo({ "1", "2", ",", "x" }, MaxTokenLen)

\* "--- a/f" and the hunk header "@@ -old +new @@"
HeaderText(old, new) ==
    OldFileMarker \o << "f", "\n" >> \o HunkMarker \o << " ", "-" >> \o old \o << " ", "+" >>
        \o new \o << " " >> \o HunkMarker

\* the diff texts: up to maxLines lines, joined with newlines, and one hunk header with
\* any old range token and a new range token one character shorter
ParseTextSet(maxLines) ==
    { Join(ls, << "\n" >>) : ls \in SeqsUpTo(ParseLineSet, maxLines) }
    \cup { HeaderText(old, new) :
             old \in RangeTokenSet, new \in { t \in RangeTokenSet : Len(t) < MaxTokenLen } }

\* the lines of a hunk body: a marker ("+", "-" or the blank of a context line) and a text
\* that is plain, ends with a blank, or is indented
ContentLineSet ==
    { << m >> \o t : m \in { "+", "-", " " },
                     t \in { << "x" >>, << "x", " " >>, << " ", "x" >> } }

\* "--- a/f", "@@ -1,1 +1,1 @@" and up to maxLines lines of a hunk body
ContentTextSet(maxLines) ==
    { Join(<< OldFileMarker \o << "f" >>,
              << "@", "@", " ", "-", "1", ",", "1", " ", "+", "1", ",", "1", " ", "@", "@" >> >>
           \o ls, << "\n" >>) : ls \in SeqsUpTo(ContentLineSet, maxLines) }

InitParse ==
    /\ mode = "parseDiff"
    /\ pc = "parse"
    /\ lines = MkSlice(<< >>)
    /\ prevLines = lines
    /\ hunk = NoHunk
    /\ hi = 0
    /\ change = NoChange
    /\ fs = << >>
    /\ ioLog = << >>
    /\ diffText \in ParseTextSet(MaxDiffLines) \cup ContentTextSet(MaxContentLines)
    /\ changes = << >>
    /\ ci = 1
    /\ result = NoResult
    /\ ToolsIdle
    /\ ChatIdle

\* changes, err := parseDiff(diffOutput)
CallParseDiff ==
    /\ mode = "parseDiff"
    /\ pc = "parse"
    /\ changes' = parseDiff(diffText).changes
    /\ result' = Result(IF parseDiff(diffText).err THEN "parse error" ELSE "ok", << >>)
    /\ pc' = "done"
    /\ UNCHANGED << mode, hunkVars, fs, ioLog, diffText, ci, toolVars >>
    /\ UNCHANGED chatVars

NextParse == CallParseDiff

SpecParse == InitParse /\ [][NextParse]_vars

-----------------------------------------------------------------------------
(* Claims about applyHunk and the hunk loop *)

\* the contents of the added and context lines of a hunk body, removed lines dropped
PostImageLines(body) ==
    LET kept == SelectSeq(body, LAMBDA l : l.Type \in { "+", " " })
    IN  [i \in 1..Len(kept) |-> kept[i].Content]

RECURSIVE ReplaceRanges(_, _, _)
\* L from position pos on, with the range [OldStart-1, OldStart-1+OldCount) of every hunk
\* replaced by that hunk's added and context lines
ReplaceRanges(L, hs, pos) ==
    IF hs = << >> THEN SubSeq(L, pos + 1, Len(L))
    ELSE LET h == Head(hs)
         IN  SubSeq(L, pos + 1, h.OldStart - 1) \o PostImageLines(h.Lines)
             \o ReplaceRanges(L, Tail(hs), h.OldStart - 1 + h.OldCount)

\* the hunks lie inside L and are listed in ascending order without overlap
AscendingInside(L, hs) ==
    /\ \A i \in 1..Len(hs) :
          /\ hs[i].OldStart >= 1
          /\ hs[i].OldCount >= 0
          /\ hs[i].OldStart - 1 + hs[i].OldCount <= Len(L)
    /\ \A i \in 1..(Len(hs) - 1) : hs[i].OldStart - 1 + hs[i].OldCount <= hs[i + 1].OldStart - 1

\* the lines applyFileChange read from the file (the file is not yet rewritten)
PreImage == Split(FileAt(fs, TargetPath).data, "\n")

\* C1: for hunks in ascending, non-overlapping order inside the file, the hunk loop of
\* applyFileChange never fails and ends with the lines of the original pre-image in which
\* every hunk's range is replaced by that hunk's context and added lines.
C1_ReverseOrderKeepsOffsets ==
    (mode = "applyFileChange" /\ pc \in { "loop", "panic" }
        /\ AscendingInside(PreImage, change.Hunks))
    => /\ pc = "loop"
       /\ hi < 0 => Elems(lines) = ReplaceRanges(PreImage, change.Hunks, 0)

\* two hunks, the later one changing the number of lines, both applied
C1_Witness ==
    /\ mode = "applyFileChange" /\ pc = "loop" /\ hi < 0
    /\ Len(change.Hunks) = 2
    /\ AscendingInside(PreImage, change.Hunks)
    /\ change.Hunks[1].OldStart < change.Hunks[2].OldStart
    /\ change.Hunks[1].OldCount > 0
    /\ change.Hunks[2].OldCount # Len(PostImageLines(change.Hunks[2].Lines))
    /\ Elems(lines) # PreImage

\* the precondition of C2: the removal range is a range of L (a count is a length)
InRange(sl, h) == h.OldStart >= 1 /\ h.OldCount >= 0 /\ h.OldStart - 1 + h.OldCount <= sl.len

\* C2: for a hunk whose range lies inside L, applyHunk returns L[0 .. OldStart-1), then the
\* hunk's context and added lines, then L[OldStart-1+OldCount .. len(L)).
C2_SpliceKeepsOuterParts ==
    (mode = "applyHunk" /\ pc # "call" /\ InRange(prevLines, hunk))
    => /\ pc = "done"
       /\ Elems(lines) = SubSeq(Elems(prevLines), 1, hunk.OldStart - 1)
                         \o PostImageLines(hunk.Lines)
                         \o SubSeq(Elems(prevLines), hunk.OldStart + hunk.OldCount, prevLines.len)

\* a hunk in the middle of the lines that removes and inserts
C2_Witness ==
    /\ mode = "applyHunk" /\ pc = "done" /\ InRange(prevLines, hunk)
    /\ hunk.OldStart > 1
    /\ hunk.OldCount > 0
    /\ hunk.OldStart - 1 + hunk.OldCount < prevLines.len
    /\ Len(PostImageLines(hunk.Lines)) > 1

\* C3 (as claimed): for a hunk with OldStart >= 1 whose removal range extends past the end
\* of the lines, applyHunk completes, removing only up to the end of the lines.
C3_ClampNeverFails ==
    (mode = "applyHunk" /\ pc # "call" /\ hunk.OldStart >= 1 /\ hunk.OldCount > 0
        /\ hunk.OldStart - 1 + hunk.OldCount > prevLines.len)
    => /\ pc = "done"
       /\ Elems(lines) = SubSeq(Elems(prevLines), 1, Min(hunk.OldStart - 1, prevLines.len))
                         \o PostImageLines(hunk.Lines)

-----------------------------------------------------------------------------
(* Claims about applyDiff *)

DiffTextLines == Split(diffText, "\n")

\* line j is a "+++ b/" line naming another path than the "--- a/" line open at line j
MismatchAt(ls, j) ==
    /\ HasPrefix(ls[j], NewFileMarker)
    /\ \E i \in 1..(j - 1) :
          /\ HasPrefix(ls[i], OldFileMarker)
          /\ \A m \in (i + 1)..(j - 1) : ~HasPrefix(ls[m], OldFileMarker)
          /\ TrimPrefix(ls[i], OldFileMarker) # TrimPrefix(ls[j], NewFileMarker)

HasMismatch(ls) == \E j \in 1..Len(ls) : MismatchAt(ls, j)

\* C4: when a "+++ b/" line of the diff text names another path than the open "--- a/"
\* change, parseDiff returns no DiffChange and applyDiff returns the parse error without a
\* single os.ReadFile or os.WriteFile call.
C4_PathMismatchAbortsDiff ==
    (mode = "applyDiff" /\ pc # "parse" /\ HasMismatch(DiffTextLines))
    => /\ pc = "done"
       /\ result.kind = "parse error"
       /\ changes = << >>
       /\ ioLog = << >>

\* the mismatch comes after a complete section for a file that could have been patched
C4_Witness ==
    /\ mode = "applyDiff" /\ pc = "done" /\ result.kind = "parse error"
    /\ \E j \in 1..Len(DiffTextLines) :
          /\ MismatchAt(DiffTextLines, j)
          /\ \A m \in 1..(j - 1) : ~MismatchAt(DiffTextLines, m)
          /\ Cardinality({ i \in 1..(j - 1) : HasPrefix(DiffTextLines[i], OldFileMarker) }) >= 2
    /\ \A p \in DOMAIN fs : fs[p].exists /\ fs[p].writable

\* the file of changes[i] cannot be read or cannot be written
FileFails(i) ==
    LET file == FileAt(fs, JoinPath(RepoPath, changes[i].FilePath))
    IN  ~file.exists \/ ~file.writable

\* the I/O calls of changes[1..k-1] applied in full, followed by those of the failing changes[k]
RECURSIVE FailFastLog(_, _)
FailFastLog(k, kind) ==
    IF k = 0 THEN << >>
    ELSE LET path == JoinPath(RepoPath, changes[k].FilePath)
         IN  IF kind = "ok" \/ kind = "write error"
             THEN FailFastLog(k - 1, "ok") \o << ReadCall(path), WriteCall(path) >>
             ELSE FailFastLog(k - 1, "ok") \o << ReadCall(path) >>

IOErrors == { "read error", "write error" }

\* C5: applyDiff is fail-fast: it returns an I/O error exactly when the file of some change
\* cannot be read or written, the error names the path of the first such change k, and
\* the only files read or written are those of changes 1..k, in order.
C5_FailFast ==
    (mode = "applyDiff" /\ pc = "done" /\ result.kind # "parse error")
    => /\ result.kind = "ok" => \A i \in 1..Len(changes) : ~FileFails(i)
       /\ result.kind \in IOErrors =>
             /\ ci \in 1..Len(changes)
             /\ FileFails(ci)
             /\ \A i \in 1..(ci - 1) : ~FileFails(i)
             /\ result.path = changes[ci].FilePath
             /\ ioLog = FailFastLog(ci, result.kind)

\* the second of three changes fails; the third one names another file, which is intact
C5_Witness ==
    /\ mode = "applyDiff" /\ pc = "done" /\ result.kind \in IOErrors
    /\ Len(changes) = 3 /\ ci = 2
    /\ changes[3].FilePath # changes[2].FilePath
    /\ ~FileFails(3)
    /\ Len(ioLog) >= 3

\* the number of os.ReadFile calls made
ReadCount == Len(SelectSeq(ioLog, LAMBDA e : e.op = "read"))

\* C6 (as claimed): after an I/O error on one file the other files of the diff are still
\* processed, so every change of the diff has had its file read.
C6_OtherFilesStillProcessed ==
    (mode = "applyDiff" /\ pc = "done" /\ result.kind \in IOErrors)
    => ReadCount = Len(changes)

\* C6 (amended): an I/O error on the file of change k ends the processing of that file and
\* of every later change: exactly the files of changes 1..k have been read, and a file
\* named only by later changes has been neither read nor written.
C6_ErrorAbortsLaterFiles ==
    (mode = "applyDiff" /\ pc = "done" /\ result.kind \in IOErrors)
    => /\ ReadCount = ci
       /\ \A i \in (ci + 1)..Len(changes) :
             (\A m \in 1..ci : changes[m].FilePath # changes[i].FilePath)
             => \A n \in 1..Len(ioLog) : ioLog[n].path # JoinPath(RepoPath, changes[i].FilePath)

\* the first change fails and a later change names another, healthy file
C6_Witness ==
    /\ mode = "applyDiff" /\ pc = "done" /\ result.kind \in IOErrors
    /\ ci = 1 /\ Len(changes) >= 2
    /\ \E i \in 2..Len(changes) : changes[i].FilePath # changes[1].FilePath /\ ~FileFails(i)

\* C7: there is no rollback: the step of applyDiff that fails on the file of change k leaves
\* every other file as it is, so the files already rewritten keep their patched content;
\* on a read error the file of change k is left as it is too.
C7_NoRollback ==
    [][ (mode = "applyDiff" /\ pc = "apply" /\ result'.kind \in IOErrors)
        => /\ \A p \in DOMAIN fs :
                 p # JoinPath(RepoPath, changes[ci].FilePath) => FileAt(fs', p) = fs[p]
           /\ result'.kind = "read error" => fs' = fs ]_vars

\* a read error on the second change, after the first one rewrote its file with a patched line
C7_Witness ==
    /\ mode = "applyDiff" /\ pc = "done" /\ result.kind = "read error"
    /\ ci = 2
    /\ ioLog[2] = WriteCall(JoinPath(RepoPath, changes[1].FilePath))
    /\ \E i \in 1..Len(fs[ioLog[2].path].data) : fs[ioLog[2].path].data[i] = "X"
    /\ ~FileAt(fs, JoinPath(RepoPath, changes[2].FilePath)).exists

-----------------------------------------------------------------------------
(* Claims about ExecuteTools *)

\* the lines scanned so far
Scanned == 1..(li - 1)

\* the three writes of the k-th call: its label, the text its handler returned, "\n"
BlockLabel(k) == results[3 * k]
BlockText(k)  == results[3 * k + 1]

\* the texts a handler returns for a failure
FailureTexts ==
    { "Error executing command: %v\nOutput: %s", "Error reading file: %v",
      "Error reading directory: %v", "Command failed: %v\nOutput: %s",
      "Error searching files: %v", "Error generating diff: %v", "Error applying diff: %v",
      "Error creating directory: %v", "Error creating file: %v" }

\* a line that holds a directive: one of the prefixes, and two parts for SEARCH_FILES
IsDirective(raw) ==
    LET line == TrimSpace(raw)
    IN  \/ \E prefix \in { RUN_COMMAND, READ_FILE, LIST_DIR, TEST_COMMAND, GENERATE_DIFF,
                           APPLY_DIFF, CREATE_FILE } : HasPrefix(line, prefix)
        \/ /\ HasPrefix(line, SEARCH_FILES)
           /\ IndexOf(TrimPrefix(line, SEARCH_FILES), " ") # 0

\* the file f of the repository does not exist (no handler creates or removes it)
FileMissing == ~FileAt(fs, JoinPath(RepoPath, << "f" >>)).exists

\* a call that works on the missing file f
OnMissingFile(call) ==
    /\ FileMissing
    /\ \/ call.tool = "readFileContent" /\ call.args = << << "f" >> >>
       \/ call.tool = "applyDiffTool" /\ call.args = << << "-", "-", "-", " ", "a", "/", "f" >> >>

\* C8: a handler failure never aborts the scan: the loop is never left before the last line,
\* a call on a missing file is a failed call, the block of a failed call holds the failure
\* text of its handler, and every directive on a later scanned line has been dispatched.
C8_FailureKeepsScanning ==
    mode = "ExecuteTools"
    => /\ pc # "panic"
       /\ pc = "done" => li = Len(respLines) + 1
       /\ \A k \in 1..Len(calls) :
             /\ OnMissingFile(calls[k]) => calls[k].failed
             /\ calls[k].failed
                => /\ BlockText(k).text \in FailureTexts
                   /\ \A j \in Scanned :
                         (j > calls[k].line /\ IsDirective(respLines[j]))
                         => \E n \in (k + 1)..Len(calls) : calls[n].line = j

\* APPLY_DIFF on the missing file f has failed, and a directive on a later line was dispatched
C8_Witness ==
    /\ mode = "ExecuteTools" /\ pc = "done"
    /\ \E k \in 1..(Len(calls) - 1) :
          /\ calls[k].tool = "applyDiffTool" /\ OnMissingFile(calls[k]) /\ calls[k].failed
          /\ BlockText(k).text = "Error applying diff: %v"
          /\ BlockText(k).args[1].kind = "read error"

\* C9: whatever the response is, the transcript ExecuteTools returns is not empty and
\* begins with the banner "Tool Execution Results:".
C9_TranscriptBeginsWithBanner ==
    (mode = "ExecuteTools" /\ pc = "done")
    => /\ results # << >>
       /\ results[1] = Chunk("Tool Execution Results:\n", << >>)

\* ExecuteTools has returned for an empty response and for one without a directive
C9_Witness ==
    /\ mode = "ExecuteTools" /\ pc = "done"
    /\ calls = << >>
    /\ \/ response = << >>
       \/ response = << "r", "u", "n", "_", "c", "o", "m", "m", "a", "n", "d", ":", " ", "c" >>
    /\ Len(results) = 2

\* the label ExecuteTools writes for a call
LabelOf(call) ==
    IF call.tool = "executeCommand" THEN Chunk("RUN_COMMAND: %s\n", call.args)
    ELSE IF call.tool = "readFileContent" THEN Chunk("READ_FILE: %s\n", call.args)
    ELSE IF call.tool = "listDirectory" THEN Chunk("LIST_DIR: %s\n", call.args)
    ELSE IF call.tool = "testCommand" THEN Chunk("TEST_COMMAND: %s\n", call.args)
    ELSE IF call.tool = "searchFiles" THEN Chunk("SEARCH_FILES: %s in %s\n", call.args)
    ELSE IF call.tool = "generateDiff" THEN Chunk("GENERATE_DIFF: %s\n", call.args)
    ELSE IF call.tool = "applyDiffTool" THEN Chunk("APPLY_DIFF: Applied\n", << >>)
    ELSE Chunk("CREATE_FILE: %s\n", << call.args[1] >>)

\* C10: directives are dispatched in the order of their lines: the calls are in ascending
\* line order, each handler has returned and its block is written before the next line is
\* scanned (its file operations precede those of every later call), and the k-th block of
\* the transcript is the block of the k-th call.
C10_DispatchInLineOrder ==
    mode = "ExecuteTools"
    => /\ Len(results) = 2 + 3 * Len(calls)
       /\ \A k \in 1..Len(calls) :
             /\ calls[k].line \in Scanned
             /\ IsDirective(respLines[calls[k].line])
             /\ BlockLabel(k) = LabelOf(calls[k])
             /\ calls[k].ioTo <= Len(ioLog)
             /\ \A n \in (k + 1)..Len(calls) :
                   calls[k].line < calls[n].line /\ calls[k].ioTo < calls[n].ioFrom

\* three directives of different tools were dispatched, the first and the last with file
\* operations of their own
C10_Witness ==
    /\ mode = "ExecuteTools" /\ pc = "done"
    /\ Len(calls) = 3
    /\ calls[1].tool = "readFileContent" /\ calls[1].ioTo = 1
    /\ calls[2].tool = "executeCommand"
    /\ calls[3].tool = "createFile" /\ calls[3].ioFrom = 2 /\ calls[3].ioTo = 2

\* the prefix of the directive a handler serves
PrefixOf(tool) ==
    IF tool = "executeCommand" THEN RUN_COMMAND
    ELSE IF tool = "readFileContent" THEN READ_FILE
    ELSE IF tool = "listDirectory" THEN LIST_DIR
    ELSE IF tool = "testCommand" THEN TEST_COMMAND
    ELSE IF tool = "searchFiles" THEN SEARCH_FILES
    ELSE IF tool = "generateDiff" THEN GENERATE_DIFF
    ELSE IF tool = "applyDiffTool" THEN APPLY_DIFF
    ELSE CREATE_FILE

\* the handlers that take the rest of the line as their argument
OneArgumentTools ==
    { "executeCommand", "readFileContent", "listDirectory", "testCommand", "generateDiff",
      "applyDiffTool", "createFile" }

\* what follows the prefix on a raw line, white space included
Remainder(raw, prefix) ==
    LET line == TrimLeft(raw)
    IN  SubSeq(line, Len(prefix) + 1, Len(line))

\* C11: for every scanned line whose trimmed text starts with the prefix of a one-argument
\* directive and goes on with something else than white space, the handler is called with
\* the remainder after the prefix, leading and trailing white space removed.
C11_ArgumentIsTrimmedRemainder ==
    mode = "ExecuteTools"
    => \A j \in Scanned : \A tool \in OneArgumentTools :
          (/\ HasPrefix(TrimSpace(respLines[j]), PrefixOf(tool))
           /\ TrimSpace(Remainder(respLines[j], PrefixOf(tool))) # << >>)
          => \E k \in 1..Len(calls) :
                /\ calls[k].line = j
                /\ calls[k].tool = tool
                /\ calls[k].args[1] = TrimSpace(Remainder(respLines[j], PrefixOf(tool)))
                /\ calls[k].args[1] # << >>
                /\ Head(calls[k].args[1]) \notin WhiteSpace
                /\ calls[k].args[1][Len(calls[k].args[1])] \notin WhiteSpace

\* a command was dispatched from a line with white space around the prefix and the argument
C11_Witness ==
    /\ mode = "ExecuteTools" /\ pc = "done"
    /\ \E k \in 1..Len(calls) :
          /\ calls[k].tool = "executeCommand"
          /\ calls[k].args = << << "c" >> >>
          /\ Remainder(respLines[calls[k].line], RUN_COMMAND) = << " ", " ", "c", " " >>
          /\ Head(respLines[calls[k].line]) = " "

RECURSIVE Tokens(_)
\* the white-space-separated tokens of a string, in order
Tokens(str) ==
    LET rest == TrimLeft(str)
        n    == IF \E i \in 1..Len(rest) : rest[i] \in WhiteSpace
                THEN (CHOOSE i \in 1..Len(rest) :
                         /\ rest[i] \in WhiteSpace
                         /\ \A j \in 1..(i - 1) : rest[j] \notin WhiteSpace) - 1
                ELSE Len(rest)
    IN  IF rest = << >> THEN << >>
        ELSE << SubSeq(rest, 1, n) >> \o Tokens(SubSeq(rest, n + 1, Len(rest)))

\* the tokens after the prefix of a SEARCH_FILES line
SearchTokens(raw) == Tokens(Remainder(raw, SEARCH_FILES))

IsSearchLine(raw) == HasPrefix(TrimSpace(raw), SEARCH_FILES)

\* C12: for every scanned line "SEARCH_FILES: <pattern> <directory>", searchFiles is called
\* with the first token after the prefix as the pattern and the second as the directory.
C12_SearchGetsBothTokens ==
    mode = "ExecuteTools"
    => \A j \in Scanned :
          (IsSearchLine(respLines[j]) /\ Len(SearchTokens(respLines[j])) = 2)
          => \E k \in 1..Len(calls) :
                /\ calls[k].line = j
                /\ calls[k].tool = "searchFiles"
                /\ calls[k].args = SearchTokens(respLines[j])

\* C13: a scanned SEARCH_FILES line with fewer than two tokens after the prefix produces no
\* directive: no call is made for it, so that no block is written for it either.
C13_SearchNeedsTwoTokens ==
    mode = "ExecuteTools"
    => \A j \in Scanned :
          (IsSearchLine(respLines[j]) /\ Len(SearchTokens(respLines[j])) < 2)
          => \A k \in 1..Len(calls) : calls[k].line # j

\* the index of the first line after line j whose trimmed text is END_FILE, and the number
\* of lines plus one when there is none
SentinelAfter(ls, j) ==
    LET ends == { i \in (j + 1)..Len(ls) : TrimSpace(ls[i]) = END_FILE }
    IN  IF ends = { } THEN Len(ls) + 1
        ELSE CHOOSE i \in ends : \A m \in ends : i <= m

\* the raw lines strictly after line j and before its sentinel, joined with newlines
PayloadAfter(ls, j) == Join(SubSeq(ls, j + 1, SentinelAfter(ls, j) - 1), << "\n" >>)

\* the calls of createFile
CreateCalls == { k \in 1..Len(calls) : calls[k].tool = "createFile" }

\* C14: wherever the CREATE_FILE line stands in the response, the payload passed to
\* createFile is the raw lines strictly after it, up to but excluding the first following
\* line whose trimmed text is END_FILE, joined with newlines.
C14_PayloadFollowsCreateLine ==
    mode = "ExecuteTools"
    => \A k \in CreateCalls : calls[k].args[2] = PayloadAfter(respLines, calls[k].line)

\* C15: the lines between a CREATE_FILE line and its END_FILE line are consumed by the
\* payload collection: none of them is dispatched to a handler.
C15_PayloadLinesNotDispatched ==
    mode = "ExecuteTools"
    => \A k \in CreateCalls :
          SentinelAfter(respLines, calls[k].line) <= Len(respLines)
          => \A n \in 1..Len(calls) :
                ~(/\ calls[k].line < calls[n].line
                  /\ calls[n].line < SentinelAfter(respLines, calls[k].line))

\* the last line of a text
LastLine(text) == Split(text, "\n")[Len(Split(text, "\n"))]

\* C16: when no END_FILE line follows a CREATE_FILE line that has lines after it, the
\* collection runs to the end of the response: createFile does not fail, the file exists,
\* and the last line of the payload is the last line of the response.
C16_PayloadRunsToEndOfResponse ==
    mode = "ExecuteTools"
    => \A k \in CreateCalls :
          (/\ calls[k].line < Len(respLines)
           /\ SentinelAfter(respLines, calls[k].line) = Len(respLines) + 1)
          => /\ ~calls[k].failed
             /\ FileAt(fs, FullPath(calls[k].args[1])).exists
             /\ LastLine(calls[k].args[2]) = respLines[Len(respLines)]

\* the eight prefixes
Prefixes ==
    { RUN_COMMAND, READ_FILE, LIST_DIR, TEST_COMMAND, SEARCH_FILES, GENERATE_DIFF, APPLY_DIFF,
      CREATE_FILE }

HasDirectivePrefix(raw) == \E prefix \in Prefixes : HasPrefix(TrimSpace(raw), prefix)

\* the number of lines up to line j that start with a prefix: a function of the text alone
PrefixedUpTo(ls, j) == Cardinality({ m \in 1..j : HasDirectivePrefix(ls[m]) })

\* the payload the text of the response fixes for a CREATE_FILE directive on line j
PayloadOfText(text, j) ==
    LET ls    == Split(text, "\n")
        first == PrefixedUpTo(ls, j) + 1
    IN  Join(SubSeq(ls, first, SentinelAfter(ls, first - 1) - 1), << "\n" >>)

\* C17: the payload of every CREATE_FILE directive is a function of the response text alone:
\* whatever the files are and however the commands end, it is the same run of raw lines of
\* the response, blank lines included, and it holds no sentinel line.
C17_PayloadDependsOnTextOnly ==
    mode = "ExecuteTools"
    => \A k \in CreateCalls :
          /\ calls[k].args[2] = PayloadOfText(response, calls[k].line)
          /\ \A m \in 1..Len(Split(calls[k].args[2], "\n")) :
                TrimSpace(Split(calls[k].args[2], "\n")[m]) # END_FILE

\* a payload of a blank line and a line with white space at both ends, its sentinel excluded
C17_Witness ==
    /\ mode = "ExecuteTools" /\ pc = "done"
    /\ Len(respLines) = 4
    /\ TrimSpace(respLines[4]) = END_FILE
    /\ \E k \in CreateCalls :
          /\ calls[k].line = 1
          /\ calls[k].args[2] = << "\n", " ", "x", " " >>

\* C18: scanning a line whose trimmed text starts with none of the eight prefixes, a blank
\* line included, calls no handler, writes nothing to the transcript and leaves toolCount,
\* the files and the log of file operations as they are.
C18_UnrecognizedLineIgnored ==
    [][ (/\ mode = "ExecuteTools" /\ pc = "scan" /\ li <= Len(respLines)
         /\ ~HasDirectivePrefix(respLines[li]))
        => /\ calls' = calls
           /\ results' = results
           /\ toolCount' = toolCount
           /\ fs' = fs
           /\ ioLog' = ioLog
           /\ li' = li + 1 /\ pc' = "scan" ]_vars

\* after one directive, a directive name in lower case and a blank line have been scanned
C18_Witness ==
    /\ mode = "ExecuteTools" /\ pc = "done"
    /\ Len(respLines) = 3
    /\ HasDirectivePrefix(respLines[1])
    /\ respLines[2] = << "r", "u", "n", "_", "c", "o", "m", "m", "a", "n", "d", ":", " ", "c" >>
    /\ respLines[3] = << >>
    /\ toolCount = 1 /\ Len(calls) = 1 /\ Len(results) = 5

\* C19: the transcript ExecuteTools returns ends with the count of directives executed, and
\* holds the no-tools message instead when none was executed.
C19_TranscriptEndsWithCount ==
    (mode = "ExecuteTools" /\ pc = "done")
    => IF toolCount = 0
       THEN \E i \in 1..Len(results) : results[i].text = "No tools detected in LLM response"
       ELSE results[Len(results)] = Chunk("Total tools executed: %d\n", << toolCount >>)

-----------------------------------------------------------------------------
(* Claims about parseDiff *)

\* the lines of a text that parseDiff looks at: trimmed, the blank ones left out
TrimmedLines(text) ==
    LET ls == Split(text, "\n")
    IN  SelectSeq([i \in 1..Len(ls) |-> TrimSpace(ls[i])], LAMBDA l : l # << >>)

IsFileHeader(l) == HasPrefix(l, OldFileMarker)

\* the index of the k-th "--- a/" line, and one past the last line when there is none
FileHeaderAt(ls, k) ==
    LET at == { i \in 1..Len(ls) :
                  /\ IsFileHeader(ls[i])
                  /\ Cardinality({ m \in 1..i : IsFileHeader(ls[m]) }) = k }
    IN  IF at = { } THEN Len(ls) + 1 ELSE CHOOSE i \in at : TRUE

\* the lines between the k-th "--- a/" line and the next one
SectionOf(ls, k) == SubSeq(ls, FileHeaderAt(ls, k) + 1, FileHeaderAt(ls, k + 1) - 1)

\* a hunk header with both range tokens
IsFullHunkHeader(l) == HasPrefix(l, HunkMarker) /\ Len(Split(l, " ")) >= 3

\* the four numbers of a hunk header line, and those of a hunk
HeaderNumbers(l) ==
    LET parts == Split(l, " ")
        old   == parseRange(TrimPrefix(parts[2], << "-" >>))
        new   == parseRange(TrimPrefix(parts[3], << "+" >>))
    IN  << old.start, old.count, new.start, new.count >>

HunkNumbers(h) == << h.OldStart, h.OldCount, h.NewStart, h.NewCount >>

RECURSIVE Collapse(_)
\* a sequence without its adjacent repetitions
Collapse(seq) ==
    IF Len(seq) <= 1 THEN seq
    ELSE IF seq[1] = seq[2] THEN Collapse(Tail(seq))
    ELSE << seq[1] >> \o Collapse(Tail(seq))

\* the numbers of the full hunk headers of a section, in the order of the lines
SectionHeaders(ls, k) ==
    LET full == SelectSeq(SectionOf(ls, k), IsFullHunkHeader)
    IN  [i \in 1..Len(full) |-> HeaderNumbers(full[i])]

\* C20: a diff text that parses gives exactly one DiffChange per "--- a/" line, in the order
\* of those lines and with their paths, also when a path occurs twice; within each
\* DiffChange the hunks follow the order of their headers (a repetition of a hunk next to
\* itself, the subject of C32, does not change the order).
C20_ChangesAndHunksInOrder ==
    (mode = "parseDiff" /\ pc = "done" /\ result.kind = "ok")
    => LET ls == TrimmedLines(diffText)
       IN  /\ Len(changes) = Cardinality({ i \in 1..Len(ls) : IsFileHeader(ls[i]) })
           /\ \A k \in 1..Len(changes) :
                 /\ changes[k].FilePath = TrimPrefix(ls[FileHeaderAt(ls, k)], OldFileMarker)
                 /\ Collapse([i \in 1..Len(changes[k].Hunks) |->
                                 HunkNumbers(changes[k].Hunks[i])])
                    = Collapse(SectionHeaders(ls, k))

\* two DiffChanges for the same path, the second with two hunks in the order of its headers
C20_Witness ==
    /\ mode = "parseDiff" /\ pc = "done" /\ result.kind = "ok"
    /\ Len(changes) = 2
    /\ changes[1].FilePath = changes[2].FilePath
    /\ Len(changes[2].Hunks) = 2
    /\ changes[2].Hunks[1].OldStart = 1 /\ changes[2].Hunks[2].OldStart = 2

\* the commas of a token
Commas(tok) == { i \in 1..Len(tok) : tok[i] = "," }

\* the number a part of a range token stands for, 0 when it is not a number
NumberOrZero(part) ==
    IF part # << >> /\ \A i \in 1..Len(part) : IsDigit(part[i]) THEN DecVal(part) ELSE 0

\* what a range token "start" or "start,count" stands for
RangeOf(tok) ==
    IF Commas(tok) = { }
    THEN << NumberOrZero(tok), 1 >>
    ELSE LET c == CHOOSE i \in Commas(tok) : TRUE
         IN  << NumberOrZero(SubSeq(tok, 1, c - 1)), NumberOrZero(SubSeq(tok, c + 1, Len(tok))) >>

\* the old and the new range token of the header "@@ -old +new @@" on line 2 of a text
HeaderTokens(text) ==
    LET parts == Tokens(Split(text, "\n")[2])
    IN  << Tail(parts[2]), Tail(parts[3]) >>

\* a text "--- a/f", "@@ -old +new @@" whose range tokens have at most one comma
IsHeaderText(text) ==
    /\ Len(Split(text, "\n")) = 2
    /\ Split(text, "\n")[1] = OldFileMarker \o << "f" >>
    /\ LET parts == Tokens(Split(text, "\n")[2])
       IN  /\ Len(parts) = 4
           /\ parts[1] = HunkMarker /\ parts[4] = HunkMarker
           /\ Head(parts[2]) = "-" /\ Head(parts[3]) = "+"
           /\ Cardinality(Commas(parts[2])) <= 1 /\ Cardinality(Commas(parts[3])) <= 1

\* C21: for a hunk header "@@ -old +new @@", the hunk parseDiff stores has (oldStart,
\* oldCount) and (newStart, newCount) as parseRange gives them for old and new: a token
\* "start,count" gives (start, count), a token "start" gives (start, 1), and a start or a
\* count that is not a number gives 0; the parse does not fail.
C21_HeaderRangesStored ==
    (mode = "parseDiff" /\ pc = "done" /\ IsHeaderText(diffText))
    => /\ result.kind = "ok"
       /\ Len(changes) = 1 /\ Len(changes[1].Hunks) = 1
       /\ << changes[1].Hunks[1].OldStart, changes[1].Hunks[1].OldCount >>
          = RangeOf(HeaderTokens(diffText)[1])
       /\ << changes[1].Hunks[1].NewStart, changes[1].Hunks[1].NewCount >>
          = RangeOf(HeaderTokens(diffText)[2])

\* the header "@@ -x,2 +12 @@": a start that is not a number, and a start without a count
C21_Witness ==
    /\ mode = "parseDiff" /\ pc = "done"
    /\ IsHeaderText(diffText)
    /\ HeaderTokens(diffText) = << << "x", ",", "2" >>, << "1", "2" >> >>
    /\ changes[1].Hunks[1].OldStart = 0 /\ changes[1].Hunks[1].OldCount = 2
    /\ changes[1].Hunks[1].NewStart = 12 /\ changes[1].Hunks[1].NewCount = 1

-----------------------------------------------------------------------------
(* Claims about parsing a diff and applying it *)

\* the line a diff of InsertTextSet adds
AddedLine(text) == Tail(Split(text, "\n")[4])

EmptyFilePath == JoinPath(RepoPath, << "e" >>)

\* C22: a diff with the single hunk "@@ -1,0 +1,1 @@" and one added line, parsed and applied
\* to the empty file, leaves exactly that line followed by one newline in the file.
C22_InsertIntoEmptyFile ==
    (mode = "applyDiff" /\ pc = "done" /\ diffText \in InsertTextSet)
    => /\ result.kind = "ok"
       /\ fs[EmptyFilePath].data = AddedLine(diffText) \o << "\n" >>

\* the same for an added line without white space at its ends
C22_InsertTrimmedLine ==
    (/\ mode = "applyDiff" /\ pc = "done" /\ diffText \in InsertTextSet
     /\ TrimSpace(AddedLine(diffText)) = AddedLine(diffText))
    => /\ result.kind = "ok"
       /\ fs[EmptyFilePath].data = AddedLine(diffText) \o << "\n" >>

-----------------------------------------------------------------------------
(* Claims about the content applyFileChange writes *)

\* strings.Join(lines, "\n") of the lines left by the last hunk
JoinedLines == Join(Elems(lines), << "\n" >>)

WrittenContent == fs[TargetPath].data

FileWritten == mode = "applyFileChange" /\ pc = "done" /\ result.kind = "ok"

\* C23: the content applyFileChange writes ends with a newline: it is the lines joined with
\* newlines, with exactly one newline appended if and only if the join does not end with one.
C23_WrittenContentEndsWithNewline ==
    FileWritten
    => /\ WrittenContent # << >>
       /\ WrittenContent[Len(WrittenContent)] = "\n"
       /\ HasSuffix(JoinedLines, << "\n" >>) => WrittenContent = JoinedLines
       /\ ~HasSuffix(JoinedLines, << "\n" >>) => WrittenContent = JoinedLines \o << "\n" >>

C23_Witness ==
    /\ FileWritten
    /\ Len(change.Hunks) > 0
    /\ JoinedLines # << >>
    /\ ~HasSuffix(JoinedLines, << "\n" >>)

\* a written content whose join already ended with a newline
C23_WitnessNothingAppended ==
    /\ FileWritten
    /\ Len(change.Hunks) > 0
    /\ HasSuffix(JoinedLines, << "\n" >>)

-----------------------------------------------------------------------------
(* Claims about the count of directives *)

\* the number of label, text and newline blocks in the transcript after the banner
TranscriptBlocks == (Len(results) - Len(Banner)) \div 3

\* C30: the running count of directives equals the number of handler invocations and the
\* number of transcript blocks: toolCount is incremented exactly when a directive is
\* dispatched to its handler.
C30_CountEqualsDispatches ==
    mode = "ExecuteTools"
    => /\ toolCount = Len(calls)
       /\ toolCount = TranscriptBlocks

\* the count and the dispatches, lines that begin with SEARCH_FILES: left out
C30_CountOfOtherDirectives ==
    (mode = "ExecuteTools" /\ \A j \in Scanned : ~HasPrefix(TrimSpace(respLines[j]), SEARCH_FILES))
    => /\ toolCount = Len(calls)
       /\ toolCount = TranscriptBlocks

-----------------------------------------------------------------------------
(* SendToOllamaWithCallback: the streaming loop of the ollama package *)

MaxStreamLines == 3

Quote == "\""

\* a JSON string without escapes, a JSON boolean
JsonString(v) ==
    /\ Len(v) >= 2
    /\ v[1] = Quote /\ v[Len(v)] = Quote
    /\ \A i \in 2..(Len(v) - 1) : v[i] # Quote

Unquote(v) == SubSeq(v, 2, Len(v) - 1)

JsonTrue  == << "t", "r", "u", "e" >>
JsonFalse == << "f", "a", "l", "s", "e" >>

ResponseKey == << "r", "e", "s", "p", "o", "n", "s", "e" >>
DoneKey     == << "d", "o", "n", "e" >>

\* one "key":value member of a JSON object
JsonMember(m) ==
    LET parts == Split(m, ":")
    IN  IF Len(parts) = 2 /\ JsonString(parts[1])
           /\ (JsonString(parts[2]) \/ parts[2] \in { JsonTrue, JsonFalse })
        THEN [ok |-> TRUE, key |-> Unquote(parts[1]), value |-> parts[2]]
        ELSE [ok |-> FALSE, key |-> << >>, value |-> << >>]

\* json.Unmarshal([]byte(line), &ollamaResp) for the fields the loop reads: the text must be
\* an object, "response" a string and "done" a boolean; other keys are ignored and a key
\* given twice keeps its last value
Unmarshal(line) ==
    LET failed  == [ok |-> FALSE, Response |-> << >>, Done |-> FALSE]
        inner   == SubSeq(line, 2, Len(line) - 1)
        texts   == IF inner = << >> THEN << >> ELSE Split(inner, ",")
        members == [i \in 1..Len(texts) |-> JsonMember(texts[i])]
        at(key) == { i \in 1..Len(members) : members[i].key = key }
        last(S) == CHOOSE i \in S : \A j \in S : j <= i
    IN  IF Len(line) < 2 \/ line[1] # "{" \/ line[Len(line)] # "}" THEN failed
        ELSE IF \E i \in 1..Len(members) : ~members[i].ok THEN failed
        ELSE IF \E i \in at(ResponseKey) : ~JsonString(members[i].value) THEN failed
        ELSE IF \E i \in at(DoneKey) : JsonString(members[i].value) THEN failed
        ELSE [ok |-> TRUE,
              Response |-> IF at(ResponseKey) = { } THEN << >>
                           ELSE Unquote(members[last(at(ResponseKey))].value),
              Done |-> at(DoneKey) # { } /\ members[last(at(DoneKey))].value = JsonTrue]

\* the index of the first newline of b at or after pos, 0 when there is none
NextNewline(b, pos) ==
    LET at == { i \in pos..Len(b) : b[i] = "\n" }
    IN  IF at = { } THEN 0 ELSE CHOOSE i \in at : \A j \in at : i <= j

Returned(text, err, cbs) == [response |-> text, err |-> err, callbacks |-> cbs]

\* a loop that goes on after a line with done=true
RECURSIVE StreamLoopPastDone(_, _, _, _, _, _)
StreamLoopPastDone(b, pos, n, fail, full, cbs) ==
    LET nl   == NextNewline(b, pos)
        line == TrimSpace(SubSeq(b, pos, nl))
        resp == Unmarshal(line)
        text == IF resp.Response # << >> THEN full \o resp.Response ELSE full
        sent == IF resp.Response # << >> THEN Append(cbs, resp.Response) ELSE cbs
    IN  IF n = fail THEN Returned(<< >>, "read error", cbs)
        ELSE IF nl = 0 THEN Returned(full, "nil", cbs)
        ELSE IF line = << >> \/ ~resp.ok
        THEN StreamLoopPastDone(b, nl + 1, n + 1, fail, full, cbs)
        ELSE StreamLoopPastDone(b, nl + 1, n + 1, fail, text, sent)

\* for { line, err := reader.ReadString('\n'); ... }: b is the body, pos the reader's
\* position, n the number of this ReadString call, fail the number of the call that returns
\* an error other than io.EOF; full is fullResponse and cbs the chunks passed to chunkCallback
RECURSIVE StreamLoop(_, _, _, _, _, _)
StreamLoop(b, pos, n, fail, full, cbs) ==
    LET nl   == NextNewline(b, pos)
        line == TrimSpace(SubSeq(b, pos, nl))
        resp == Unmarshal(line)
        text == IF resp.Response # << >> THEN full \o resp.Response ELSE full
        sent == IF resp.Response # << >> THEN Append(cbs, resp.Response) ELSE cbs
    IN  IF n = fail THEN Returned(<< >>, "read error", cbs)
        ELSE IF nl = 0 THEN Returned(full, "nil", cbs)
        ELSE IF line = << >> \/ ~resp.ok THEN StreamLoop(b, nl + 1, n + 1, fail, full, cbs)
        ELSE IF resp.Done THEN Returned(text, "nil", sent)
        ELSE StreamLoop(b, nl + 1, n + 1, fail, text, sent)

\* SendToOllamaWithCallback with a non-nil chunkCallback: the text and the error it returns
\* and the chunks it passes to the callback, in order
SendToOllamaWithCallback(b, tr) ==
    IF tr.post = "error" THEN Returned(<< >>, "send error", << >>)
    ELSE IF tr.post = "bad status" THEN Returned(<< >>, "http error", << >>)
    ELSE StreamLoop(b, 1, 1, tr.failAt, << >>, << >>)

-----------------------------------------------------------------------------
(* SpecOllama: one call of SendToOllamaWithCallback on a streamed body *)

\* the lines of a body: a chunk, a chunk with done=true, done=true alone, an empty response,
\* a malformed line, a blank line
OllamaLineSet ==
    { << "{", "\"", "r", "e", "s", "p", "o", "n", "s", "e", "\"", ":", "\"", "p", "\"", "}" >>,
      << "{", "\"", "r", "e", "s", "p", "o", "n", "s", "e", "\"", ":", "\"", "q", "\"", ",", "\"", "d", "o", "n", "e", "\"", ":", "t", "r", "u", "e", "}" >>,
      << "{", "\"", "d", "o", "n", "e", "\"", ":", "t", "r", "u", "e", "}" >>,
      << "{", "\"", "r", "e", "s", "p", "o", "n", "s", "e", "\"", ":", "\"", "\"", ",", "\"", "d", "o", "n", "e", "\"", ":", "f", "a", "l", "s", "e", "}" >>,
      << "{", "\"", "r", "e", "s", "p", "o", "n", "s", "e", "\"", ":", "\"", "r", "\"" >>,
      << " " >> }

\* the bodies: up to MaxStreamLines lines, each one ended by a newline but, in half of the
\* bodies, the last
BodySet ==
    LET texts == SeqsUpTo(OllamaLineSet, MaxStreamLines)
    IN  { Join(ls, << "\n" >>) : ls \in texts }
        \cup { Join(ls, << "\n" >>) \o << "\n" >> : ls \in texts }

TransportSet ==
    { [post |-> "error", failAt |-> 0], [post |-> "bad status", failAt |-> 0] }
    \cup { [post |-> "ok", failAt |-> n] : n \in 0..MaxStreamLines }

InitOllama ==
    /\ mode = "SendToOllamaWithCallback"
    /\ pc = "call"
    /\ lines = MkSlice(<< >>)
    /\ prevLines = lines
    /\ hunk = NoHunk
    /\ hi = 0
    /\ change = NoChange
    /\ fs = << >>
    /\ ioLog = << >>
    /\ diffText = << >>
    /\ changes = << >>
    /\ ci = 0
    /\ result = NoResult
    /\ ToolsIdle
    /\ respBody \in BodySet
    /\ transport \in TransportSet
    /\ callbacks = << >>
    /\ ret = NoReturn
    /\ BatchIdle
    /\ ReplIdle

\* the whole call: the callbacks it makes and the values it returns
CallSendToOllama ==
    /\ mode = "SendToOllamaWithCallback"
    /\ pc = "call"
    /\ callbacks' = SendToOllamaWithCallback(respBody, transport).callbacks
    /\ ret' = [returned |-> TRUE,
               response |-> SendToOllamaWithCallback(respBody, transport).response,
               err      |-> SendToOllamaWithCallback(respBody, transport).err]
    /\ pc' = "done"
    /\ UNCHANGED << mode, hunkVars, diffVars, fs, ioLog, toolVars, respBody, transport,
                    batchVars, replVars >>

NextOllama == CallSendToOllama

SpecOllama == InitOllama /\ [][NextOllama]_vars

-----------------------------------------------------------------------------
(* Claims about SendToOllamaWithCallback *)

\* the lines of the body that end with a newline, trimmed
StreamedLines ==
    LET texts == Split(respBody, "\n")
    IN  [i \in 1..(Len(texts) - 1) |-> TrimSpace(texts[i])]

\* line i is neither blank nor malformed
IsMessage(i) == StreamedLines[i] # << >> /\ Unmarshal(StreamedLines[i]).ok

IsDoneLine(i) == IsMessage(i) /\ Unmarshal(StreamedLines[i]).Done

\* the number of the first line with done=true, and of the last line when there is none
LastHandledLine ==
    IF \E i \in 1..Len(StreamedLines) : IsDoneLine(i)
    THEN CHOOSE i \in 1..Len(StreamedLines) :
            IsDoneLine(i) /\ \A j \in 1..(i - 1) : ~IsDoneLine(j)
    ELSE Len(StreamedLines)

RECURSIVE ChunksUpTo(_)
\* the non-empty response fields of the messages among the first n lines, in stream order
ChunksUpTo(n) ==
    IF n = 0 THEN << >>
    ELSE IF IsMessage(n) /\ Unmarshal(StreamedLines[n]).Response # << >>
    THEN Append(ChunksUpTo(n - 1), Unmarshal(StreamedLines[n]).Response)
    ELSE ChunksUpTo(n - 1)

RECURSIVE Concat(_)
Concat(chunks) == IF chunks = << >> THEN << >> ELSE Head(chunks) \o Concat(Tail(chunks))

Streamed ==
    mode = "SendToOllamaWithCallback" /\ pc = "done" /\ transport.post = "ok"

\* the ReadString calls of a loop that no error ends: one for each line up to the line with
\* done=true, or one for each line and one that finds the end of the body
ReadsMade ==
    IF \E i \in 1..Len(StreamedLines) : IsDoneLine(i) THEN LastHandledLine
    ELSE Len(StreamedLines) + 1

ReadFails == transport.failAt \in 1..ReadsMade

\* the lines read before the read that fails
LinesRead == IF ReadFails THEN transport.failAt - 1 ELSE LastHandledLine

\* C29 as stated: the callback gets the non-empty response field of every streamed line up to
\* the first line with done=true, in stream order, blank and malformed lines skipped, and the
\* call returns the concatenation of the chunks it passed to the callback.
C29_ReturnsWhatItStreamed ==
    Streamed
    => /\ callbacks = ChunksUpTo(LinesRead)
       /\ ret.response = Concat(callbacks)

\* C29: the callback gets the non-empty response field of every line read up to the first
\* line with done=true, in stream order, blank and malformed lines skipped; a call that
\* returns no error returns the concatenation of the chunks it passed to the callback, and a
\* call whose read fails returns the empty text and the error.
C29_StreamedChunksAndReturn ==
    Streamed
    => /\ callbacks = ChunksUpTo(LinesRead)
       /\ ret.err = "nil" => ret.response = Concat(callbacks)
       /\ ret.err # "nil" => ret.response = << >> /\ ret.err = "read error"
       /\ ret.err = "nil" <=> ~ReadFails

\* two chunks passed, the second one on the line with done=true, a blank or malformed line
\* skipped between them
C29_Witness ==
    /\ Streamed
    /\ ret.err = "nil"
    /\ Len(callbacks) = 2
    /\ ret.response = << "p", "q" >>
    /\ \E i \in 1..LastHandledLine : ~IsMessage(i)

\* a chunk on a line after the line with done=true
C29_WitnessStopsAtDone ==
    /\ Streamed
    /\ ret.err = "nil"
    /\ LastHandledLine < Len(StreamedLines)
    /\ callbacks # << >>
    /\ ChunksUpTo(Len(StreamedLines)) # callbacks

\* a read fails after a chunk was passed to the callback
C29_WitnessReadError ==
    /\ Streamed
    /\ ret.err = "read error"
    /\ callbacks # << >>

-----------------------------------------------------------------------------
(* SpecBatch: runBatch, its producer goroutine and its receive loop *)

\* the capacity of streamChannel, make(chan string, 100), scaled to the bodies of the model
StreamCap == 2

\* fmt.Sprintf("\n(cross mark) Error: %v\n", err), the cross mark written x and the text of
\* the error kept as one element
ErrorChunk(err) ==
    << "\n", "x", " ", "E", "r", "r", "o", "r", ":", " ", err, "\n" >>

\* the bodies the producers read: lines that carry a chunk, every line ended by a newline
ChunkBodySet ==
    { Join(ls, << "\n" >>) \o << "\n" >> :
        ls \in SeqsUpTo({ << "{", "\"", "r", "e", "s", "p", "o", "n", "s", "e", "\"", ":",
                             "\"", "p", "\"", "}" >>,
                          << "{", "\"", "r", "e", "s", "p", "o", "n", "s", "e", "\"", ":",
                             "\"", "q", "\"", "}" >> }, MaxStreamLines) }

\* a goroutine about to call SendToOllamaWithCallback on body b: the chunks its callback
\* will get and the error the call will return
Producer(b, tr) ==
    [pc     |-> "callback",
     toSend |-> SendToOllamaWithCallback(b, tr).callbacks,
     err    |-> SendToOllamaWithCallback(b, tr).err]

InitBatch ==
    /\ mode = "runBatch"
    /\ pc = "range"
    /\ lines = MkSlice(<< >>)
    /\ prevLines = lines
    /\ hunk = NoHunk
    /\ hi = 0
    /\ change = NoChange
    /\ fs = << >>
    /\ ioLog = << >>
    /\ diffText = << >>
    /\ changes = << >>
    /\ ci = 0
    /\ result = NoResult
    /\ ToolsIdle
    /\ respBody \in ChunkBodySet
    /\ transport \in TransportSet
    /\ callbacks = << >>
    /\ ret = NoReturn
    /\ streamChannel = << >>
    /\ closed = FALSE
    /\ producers = << Producer(respBody, transport) >>
    /\ scannerInput = << >>
    /\ toolsEnabled \in BOOLEAN
    /\ ReplIdle

\* the callback of the goroutine: streamChannel <- chunk, which waits while the buffer is full
BatchCallback ==
    /\ mode = "runBatch"
    /\ producers[1].pc = "callback"
    /\ producers[1].toSend # << >>
    /\ Len(streamChannel) < StreamCap
    /\ streamChannel' = Append(streamChannel, Head(producers[1].toSend))
    /\ callbacks' = Append(callbacks, Head(producers[1].toSend))
    /\ producers' = << [producers[1] EXCEPT !.toSend = Tail(@)] >>
    /\ UNCHANGED << mode, pc, hunkVars, diffVars, fs, ioLog, toolVars, respBody, transport, ret,
                    closed, scannerInput, toolsEnabled, replVars >>

\* SendToOllamaWithCallback returns to the goroutine
BatchReturn ==
    /\ mode = "runBatch"
    /\ producers[1].pc = "callback"
    /\ producers[1].toSend = << >>
    /\ ret' = [returned |-> TRUE,
               response |-> SendToOllamaWithCallback(respBody, transport).response,
               err      |-> producers[1].err]
    /\ producers' = << [producers[1] EXCEPT
                          !.pc = IF producers[1].err = "nil" THEN "close" ELSE "error"] >>
    /\ UNCHANGED << mode, pc, hunkVars, diffVars, fs, ioLog, toolVars, respBody, transport,
                    callbacks, streamChannel, closed, scannerInput, toolsEnabled, replVars >>

\* if err != nil { streamChannel <- fmt.Sprintf(...) }
BatchSendError ==
    /\ mode = "runBatch"
    /\ producers[1].pc = "error"
    /\ Len(streamChannel) < StreamCap
    /\ streamChannel' = Append(streamChannel, ErrorChunk(producers[1].err))
    /\ producers' = << [producers[1] EXCEPT !.pc = "close"] >>
    /\ UNCHANGED << mode, pc, hunkVars, diffVars, fs, ioLog, toolVars, ollamaVars, closed,
                    scannerInput, toolsEnabled, replVars >>

\* close(streamChannel)
BatchClose ==
    /\ mode = "runBatch"
    /\ producers[1].pc = "close"
    /\ closed' = TRUE
    /\ producers' = << [producers[1] EXCEPT !.pc = "done"] >>
    /\ UNCHANGED << mode, pc, hunkVars, diffVars, fs, ioLog, toolVars, ollamaVars,
                    streamChannel, scannerInput, toolsEnabled, replVars >>

\* one iteration of for chunk := range streamChannel: response.WriteString(chunk)
BatchReceive ==
    /\ mode = "runBatch"
    /\ pc = "range"
    /\ streamChannel # << >>
    /\ response' = response \o Head(streamChannel)
    /\ streamChannel' = Tail(streamChannel)
    /\ UNCHANGED << mode, pc, hunkVars, diffVars, fs, ioLog, respLines, li, toolCount, results,
                    calls, summary, ollamaVars, closed, producers, scannerInput, toolsEnabled,
                    replVars >>

\* a range loop that ends as soon as it finds the buffer empty
BatchEndRangeOnEmpty ==
    /\ mode = "runBatch"
    /\ pc = "range"
    /\ streamChannel = << >>
    /\ pc' = "tools"
    /\ UNCHANGED << mode, hunkVars, diffVars, fs, ioLog, toolVars, chatVars >>

\* the range loop ends: the channel is closed and its buffer is empty
BatchEndRange ==
    /\ mode = "runBatch"
    /\ pc = "range"
    /\ closed
    /\ streamChannel = << >>
    /\ pc' = "tools"
    /\ UNCHANGED << mode, hunkVars, diffVars, fs, ioLog, toolVars, chatVars >>

\* if toolsEnabled { tools.ExecuteTools(response.String(), repoPath) }
BatchExecuteTools ==
    /\ mode = "runBatch"
    /\ pc = "tools"
    /\ scannerInput' = IF toolsEnabled THEN Append(scannerInput, response) ELSE scannerInput
    /\ pc' = "done"
    /\ UNCHANGED << mode, hunkVars, diffVars, fs, ioLog, toolVars, ollamaVars, streamChannel,
                    closed, producers, toolsEnabled, replVars >>

NextBatch ==
    \/ BatchCallback
    \/ BatchReturn
    \/ BatchSendError
    \/ BatchClose
    \/ BatchReceive
    \/ BatchEndRange
    \/ BatchExecuteTools

SpecBatch == InitBatch /\ [][NextBatch]_vars

-----------------------------------------------------------------------------
(* Claims about runBatch *)

\* the chunks the producer sends during a whole run: those of its callback, then the message
\* of the error
ChunksOfRun ==
    SendToOllamaWithCallback(respBody, transport).callbacks
    \o (IF SendToOllamaWithCallback(respBody, transport).err = "nil" THEN << >>
        ELSE << ErrorChunk(SendToOllamaWithCallback(respBody, transport).err) >>)

\* C24: in batch mode the scanner is invoked only after the producer goroutine has closed the
\* stream channel and the consumer has received every chunk: the text passed to ExecuteTools
\* is the in-order concatenation of all the chunks the producer sent, for any interleaving.
C24_ScannerGetsWholeResponse ==
    (mode = "runBatch" /\ scannerInput # << >>)
    => /\ closed
       /\ producers[1].pc = "done"
       /\ streamChannel = << >>
       /\ Len(scannerInput) = 1
       /\ scannerInput[1] = Concat(ChunksOfRun)

\* chunks and the message of an error, more than the buffer holds, were passed to the scanner
C24_Witness ==
    /\ mode = "runBatch"
    /\ scannerInput # << >>
    /\ Len(ChunksOfRun) > StreamCap
    /\ ret.err # "nil"
    /\ scannerInput[1] = Concat(ChunksOfRun)

-----------------------------------------------------------------------------
(* SpecRepl: the REPLModel of the tui package under the Bubble Tea runtime: Update on keys  *)
(* and ticks, the commands Update returns, and the goroutines that stream a response.       *)
(* The panel flags and the context, which only View and the request read, are not part of   *)
(* the state.                                                                               *)

MaxInput    == 2
MaxRequests == 2
MaxCmds     == 1
MaxEntries  == 3

\* the number of entries of conversationHistory kept when a request is added, 20 in the code
KeepEntries == 2

UserPrefix == << "U", "s", "e", "r", ":", " " >>

\* the entry F5 appends, cut after its first sentence
SystemEntry ==
    << "S", "y", "s", "t", "e", "m", ":", " ", "L", "o", "c", "a", "l", " ", "c", "o", "n",
       "t", "e", "x", "t", " ", "c", "l", "e", "a", "r", "e", "d", "." >>

\* fmt.Sprintf("Error: %v", err), the text of the error kept as one element
ErrorText(err) == << "E", "r", "r", "o", "r", ":", " ", err >>

\* the bodies of the model's responses: the chunk p, and MaxStreamLines chunks p, q, p, ...
ReplBodySet ==
    { b \in ChunkBodySet :
        LET chunks == SendToOllamaWithCallback(b, GoodTransport).callbacks
        IN  /\ Len(chunks) \in { 1, MaxStreamLines }
            /\ \A i \in 1..Len(chunks) :
                  chunks[i] = (IF i % 2 = 1 THEN << "p" >> ELSE << "q" >>) }

ReplTransportSet == { GoodTransport, [post |-> "ok", failAt |-> 2] }

Navigate(direction) == [kind |-> "navigate", direction |-> direction, input |-> << >>]
Request(text)       == [kind |-> "request", direction |-> 0, input |-> text]

\* s[len(s)-n:] when len(s) > n
KeepLast(s, n) == IF Len(s) > n THEN SubSeq(s, Len(s) - n + 1, Len(s)) ELSE s

\* s[len(s)-1] += text
AppendToLast(s, text) == [s EXCEPT ![Len(s)] = @ \o text]

InitRepl ==
    /\ mode = "REPL"
    /\ pc = "run"
    /\ lines = MkSlice(<< >>)
    /\ prevLines = lines
    /\ hunk = NoHunk
    /\ hi = 0
    /\ change = NoChange
    /\ fs = << >>
    /\ ioLog = << >>
    /\ diffText = << >>
    /\ changes = << >>
    /\ ci = 0
    /\ result = NoResult
    /\ ToolsIdle
    /\ OllamaIdle
    /\ BatchIdle
    /\ input = << >>
    /\ history = << >>
    /\ historyIndex = -1
    /\ conversationHistory = << >>
    /\ processing = FALSE
    /\ quitting = FALSE
    /\ cmds = << >>
    /\ spinnerFrame = 0
    /\ tickCmds = 1

Running == mode = "REPL" /\ pc = "run" /\ ~quitting

\* what no step of the REPL changes, and what only a tick changes
ReplOther == << mode, hunkVars, diffVars, fs, ioLog, toolVars, ollamaVars, closed,
                scannerInput, toolsEnabled >>
ReplFrame == << ReplOther, tickVars >>

\* case "ctrl+c", case "f10"
KeyQuit ==
    /\ Running
    /\ quitting' = TRUE
    /\ UNCHANGED << ReplFrame, pc, streamChannel, producers, input, history, historyIndex,
                    conversationHistory, processing, cmds >>

\* a submitInput that appends the input as it was typed
submitInputUntrimmed ==
    IF TrimSpace(input) = << >>
    THEN UNCHANGED << input, history, historyIndex, processing, cmds >>
    ELSE /\ history' = IF history = << >> \/ input # history[Len(history)]
                       THEN Append(history, input) ELSE history
         /\ historyIndex' = Len(history')
         /\ input' = << >>
         /\ processing' = TRUE
         /\ cmds' = Append(cmds, Request(input))

\* submitInput, and the command it returns
submitInput ==
    LET text == TrimSpace(input)
    IN  IF text = << >>
        THEN UNCHANGED << input, history, historyIndex, processing, cmds >>
        ELSE /\ history' = IF history = << >> \/ text # history[Len(history)]
                           THEN Append(history, text) ELSE history
             /\ historyIndex' = Len(history')
             /\ input' = << >>
             /\ processing' = TRUE
             /\ cmds' = Append(cmds, Request(text))

\* the requests submitted so far
Requests == Len(producers) + Len(SelectSeq(cmds, LAMBDA c : c.kind = "request"))

\* case "enter": if m.input != "" { return m, m.submitInput() }
KeyEnter ==
    /\ Running
    /\ Requests < MaxRequests
    /\ IF input # << >> THEN submitInput
       ELSE UNCHANGED << input, history, historyIndex, processing, cmds >>
    /\ UNCHANGED << ReplFrame, pc, streamChannel, producers, conversationHistory, quitting >>

\* case "up", case "down": return m, m.navigateHistory(direction)
KeyArrow ==
    /\ Running
    /\ Len(SelectSeq(cmds, LAMBDA c : c.kind = "navigate")) < MaxCmds
    /\ \E direction \in { -1, 1 } : cmds' = Append(cmds, Navigate(direction))
    /\ UNCHANGED << ReplFrame, pc, streamChannel, producers, input, history, historyIndex,
                    conversationHistory, processing, quitting >>

\* case "f1", "f2", "f3", "esc": the panel flags
KeyPanel ==
    /\ Running
    /\ UNCHANGED vars

\* case "f4": m.conversationHistory = nil
KeyF4 ==
    /\ Running
    /\ conversationHistory' = << >>
    /\ UNCHANGED << ReplFrame, pc, streamChannel, producers, input, history, historyIndex,
                    processing, quitting, cmds >>

\* case "f5": the context is cleared and an entry appended
KeyF5 ==
    /\ Running
    /\ Len(conversationHistory) < MaxEntries
    /\ conversationHistory' = Append(conversationHistory, SystemEntry)
    /\ UNCHANGED << ReplFrame, pc, streamChannel, producers, input, history, historyIndex,
                    processing, quitting, cmds >>

\* case "backspace"
KeyBackspace ==
    /\ Running
    /\ input' = IF Len(input) > 0 THEN SubSeq(input, 1, Len(input) - 1) ELSE input
    /\ UNCHANGED << ReplFrame, pc, streamChannel, producers, history, historyIndex,
                    conversationHistory, processing, quitting, cmds >>

\* case "space" and the default case on a printable character
KeyCharacter(key) ==
    /\ Running
    /\ Len(input) < MaxInput
    /\ input' = Append(input, key)
    /\ UNCHANGED << ReplFrame, pc, streamChannel, producers, history, historyIndex,
                    conversationHistory, processing, quitting, cmds >>

\* the user types a one-letter command on an empty input line
KeyCommand == input = << >> /\ KeyCharacter("a")

\* the number of spinner characters
SpinnerFrames == 10

\* a tick that takes the newest chunk of the channel
TickNewest ==
    /\ Running
    /\ tickCmds > 0
    /\ spinnerFrame' = IF processing THEN (spinnerFrame + 1) % SpinnerFrames ELSE spinnerFrame
    /\ IF processing /\ streamChannel # << >>
       THEN /\ streamChannel' = SubSeq(streamChannel, 1, Len(streamChannel) - 1)
            /\ conversationHistory' =
                  IF Len(conversationHistory) > 0
                  THEN AppendToLast(conversationHistory, streamChannel[Len(streamChannel)])
                  ELSE Append(conversationHistory, streamChannel[Len(streamChannel)])
       ELSE UNCHANGED << streamChannel, conversationHistory >>
    /\ tickCmds' = (tickCmds - 1) + 1
    /\ UNCHANGED << ReplOther, pc, producers, input, history, historyIndex, processing,
                    quitting, cmds >>

\* a tick that advances the spinner frame while nothing is processed, too
TickWhileIdle ==
    /\ Running
    /\ tickCmds > 0
    /\ spinnerFrame' = (spinnerFrame + 1) % SpinnerFrames
    /\ IF processing /\ streamChannel # << >>
       THEN /\ streamChannel' = Tail(streamChannel)
            /\ conversationHistory' =
                  IF Len(conversationHistory) > 0
                  THEN AppendToLast(conversationHistory, Head(streamChannel))
                  ELSE Append(conversationHistory, Head(streamChannel))
       ELSE UNCHANGED << streamChannel, conversationHistory >>
    /\ tickCmds' = (tickCmds - 1) + 1
    /\ UNCHANGED << ReplOther, pc, producers, input, history, historyIndex, processing,
                    quitting, cmds >>

\* case tickMsg, the message of one tick command: while processing, the spinner frame
\* advances and one chunk at most is taken from the channel and appended to the last entry;
\* a new tick command is returned
Tick ==
    /\ Running
    /\ tickCmds > 0
    /\ spinnerFrame' = IF processing THEN (spinnerFrame + 1) % SpinnerFrames ELSE spinnerFrame
    /\ IF processing /\ streamChannel # << >>
       THEN /\ streamChannel' = Tail(streamChannel)
            /\ conversationHistory' =
                  IF Len(conversationHistory) > 0
                  THEN AppendToLast(conversationHistory, Head(streamChannel))
                  ELSE Append(conversationHistory, Head(streamChannel))
       ELSE UNCHANGED << streamChannel, conversationHistory >>
    /\ tickCmds' = (tickCmds - 1) + 1
    /\ UNCHANGED << ReplOther, pc, producers, input, history, historyIndex, processing,
                    quitting, cmds >>

\* cmds without its i-th element
Without(s, i) == SubSeq(s, 1, i - 1) \o SubSeq(s, i + 1, Len(s))

\* a navigateHistory that moves up from the first entry too
navigateHistoryUnbounded(direction) ==
    IF direction < 0
    THEN /\ historyIndex' = historyIndex - 1
         /\ IF historyIndex' \in 0..(Len(history) - 1)
            THEN input' = history[historyIndex' + 1] /\ pc' = pc
            ELSE input' = input /\ pc' = "panic"
    ELSE UNCHANGED << historyIndex, input, pc >>

\* the function navigateHistory returns; an index outside the history panics
navigateHistory(direction) ==
    IF direction < 0 /\ historyIndex > 0
    THEN /\ historyIndex' = historyIndex - 1
         /\ IF historyIndex' \in 0..(Len(history) - 1)
            THEN input' = history[historyIndex' + 1] /\ pc' = pc
            ELSE input' = input /\ pc' = "panic"
    ELSE IF direction > 0 /\ historyIndex < Len(history) - 1
    THEN /\ historyIndex' = historyIndex + 1
         /\ IF historyIndex' \in 0..(Len(history) - 1)
            THEN input' = history[historyIndex' + 1] /\ pc' = pc
            ELSE input' = input /\ pc' = "panic"
    ELSE IF direction > 0 /\ historyIndex = Len(history) - 1
    THEN /\ historyIndex' = historyIndex + 1
         /\ input' = << >>
         /\ pc' = pc
    ELSE UNCHANGED << historyIndex, input, pc >>

\* the runtime runs a command of navigateHistory
RunNavigate ==
    /\ Running
    /\ \E i \in 1..Len(cmds) :
          /\ cmds[i].kind = "navigate"
          /\ navigateHistory(cmds[i].direction)
          /\ cmds' = Without(cmds, i)
    /\ UNCHANGED << ReplFrame, streamChannel, producers, history, conversationHistory,
                    processing, quitting >>

\* the runtime runs the command of submitInput and Update gets its ollamaRequestMsg: the
\* entries of the exchange are appended and the goroutine is started
RunRequest ==
    /\ Running
    /\ \E i \in 1..Len(cmds) :
          /\ cmds[i].kind = "request"
          /\ conversationHistory' =
                Append(KeepLast(Append(conversationHistory, UserPrefix \o cmds[i].input),
                                KeepEntries), << >>)
          /\ cmds' = Without(cmds, i)
    /\ \E b \in ReplBodySet, tr \in ReplTransportSet :
          producers' = Append(producers, Producer(b, tr))
    /\ UNCHANGED << ReplFrame, pc, streamChannel, input, history, historyIndex, processing,
                    quitting >>

\* a callback that puts every chunk into the channel
ReplCallbackKeepingAll(k) ==
    /\ Running
    /\ producers[k].pc = "callback"
    /\ producers[k].toSend # << >>
    /\ streamChannel' = Append(streamChannel, Head(producers[k].toSend))
    /\ producers' = [producers EXCEPT ![k].toSend = Tail(@)]
    /\ UNCHANGED << ReplFrame, pc, replVars >>

\* the callback of goroutine k: select { case m.streamChannel <- chunk: default: }
ReplCallback(k) ==
    /\ Running
    /\ producers[k].pc = "callback"
    /\ producers[k].toSend # << >>
    /\ streamChannel' = IF Len(streamChannel) < StreamCap
                        THEN Append(streamChannel, Head(producers[k].toSend))
                        ELSE streamChannel
    /\ producers' = [producers EXCEPT ![k].toSend = Tail(@)]
    /\ UNCHANGED << ReplFrame, pc, replVars >>

\* SendToOllamaWithCallback returns to goroutine k, which appends the error to the last entry
ReplReturn(k) ==
    /\ Running
    /\ producers[k].pc = "callback"
    /\ producers[k].toSend = << >>
    /\ producers' = [producers EXCEPT ![k].pc = "stop"]
    /\ IF producers[k].err = "nil"
       THEN UNCHANGED << conversationHistory, pc >>
       ELSE IF conversationHistory = << >>
       THEN conversationHistory' = conversationHistory /\ pc' = "panic"
       ELSE /\ conversationHistory' = AppendToLast(conversationHistory,
                                                   ErrorText(producers[k].err))
            /\ pc' = pc
    /\ UNCHANGED << ReplFrame, streamChannel, input, history, historyIndex, processing,
                    quitting, cmds >>

\* m.processing = false; m.responseComplete = true
ReplStop(k) ==
    /\ Running
    /\ producers[k].pc = "stop"
    /\ processing' = FALSE
    /\ producers' = [producers EXCEPT ![k].pc = "done"]
    /\ UNCHANGED << ReplFrame, pc, streamChannel, input, history, historyIndex,
                    conversationHistory, quitting, cmds >>

\* the history of commands: keys, and the commands of submitInput and navigateHistory
NextRepl ==
    \/ KeyQuit
    \/ KeyEnter
    \/ KeyArrow
    \/ KeyPanel
    \/ KeyBackspace
    \/ \E key \in { "a", " " } : KeyCharacter(key)
    \/ RunNavigate

SpecRepl == InitRepl /\ [][NextRepl]_vars

\* the streaming of responses: up to MaxRequests requests, the goroutines that stream them
\* and the ticks
NextStream ==
    \/ KeyEnter
    \/ KeyCommand
    \/ Tick
    \/ RunRequest
    \/ \E k \in 1..Len(producers) : ReplCallback(k) \/ ReplReturn(k) \/ ReplStop(k)

SpecStream == InitRepl /\ [][NextStream]_vars

\* the user submits one command
KeyEnterOnce == Requests = 0 /\ KeyEnter

\* one request that is streamed while the user clears the conversation and the context
NextClear ==
    \/ KeyEnterOnce
    \/ KeyCommand
    \/ KeyF4
    \/ KeyF5
    \/ Tick
    \/ RunRequest
    \/ \E k \in 1..Len(producers) : ReplCallback(k) \/ ReplReturn(k) \/ ReplStop(k)

SpecClear == InitRepl /\ [][NextClear]_vars

\* a step of goroutine k
ProducerStep(k) ==
    /\ k \in 1..Len(producers)
    /\ (ReplCallback(k) \/ ReplReturn(k) \/ ReplStop(k))

\* one request and its streaming
NextDrain ==
    \/ KeyEnterOnce
    \/ KeyCommand
    \/ Tick
    \/ RunRequest
    \/ ProducerStep(1)

\* the same under fair scheduling: the runtime delivers the tick of a pending tick command
\* and the goroutine, once started, is scheduled
SpecDrain ==
    /\ InitRepl
    /\ [][NextDrain]_vars
    /\ WF_vars(Tick)
    /\ WF_vars(ProducerStep(1))

-----------------------------------------------------------------------------
(* Claims about the REPL *)

\* the runtime runs a pending command of navigateHistory(direction)
NavigateStep(direction) ==
    \E i \in 1..Len(cmds) : cmds[i] = Navigate(direction) /\ cmds' = Without(cmds, i)

\* C27: history navigation stays in bounds: moving up never takes historyIndex below 0,
\* moving down from the last entry sets historyIndex to len(history) and clears the input,
\* moving down beyond that changes nothing, and history[historyIndex] is only read with
\* 0 <= historyIndex < len(history), so that the input becomes that entry.
C27_NavigationStaysInBounds ==
    [][(mode = "REPL" /\ (NavigateStep(-1) \/ NavigateStep(1)))
       => /\ pc' # "panic"
          /\ NavigateStep(-1) => (historyIndex' >= 0 \/ historyIndex' = historyIndex)
          /\ (NavigateStep(1) /\ historyIndex = Len(history) - 1)
             => (historyIndex' = Len(history) /\ input' = << >>)
          /\ (NavigateStep(1) /\ historyIndex >= Len(history))
             => UNCHANGED << historyIndex, input >>
          /\ historyIndex' # historyIndex
             => \/ historyIndex' = Len(history) /\ input' = << >>
                \/ /\ historyIndex' \in 0..(Len(history) - 1)
                   /\ input' = history[historyIndex' + 1]
          /\ historyIndex' \in -1..Len(history)]_vars

\* two moves up from the end of a history of two commands
C27_Witness ==
    /\ mode = "REPL" /\ pc = "run"
    /\ Len(history) = 2
    /\ historyIndex = 0
    /\ input = history[1]
    /\ \A i \in 1..Len(cmds) : cmds[i].kind # "navigate"

\* a move down from the last entry, past the end of the history
C27_WitnessPastEnd ==
    /\ mode = "REPL" /\ pc = "run"
    /\ Len(history) = 2
    /\ historyIndex = Len(history)
    /\ input = << >>
    /\ processing
    /\ \A i \in 1..Len(cmds) : cmds[i].kind # "navigate"

\* no two adjacent entries of the history are equal
NoRepeatedCommand == \A i \in 1..(Len(history) - 1) : history[i] # history[i + 1]

\* C28: submitInput on an input that is not empty after trimming appends the trimmed input to
\* the history unless it equals the last entry, so that the history never holds two equal
\* adjacent entries, sets historyIndex to len(history), clears the input, sets processing and
\* returns the command of the request; on an input that is empty after trimming it returns no
\* command and changes no state.
C28_SubmitInput ==
    /\ [](mode = "REPL" => NoRepeatedCommand)
    /\ [][(mode = "REPL" /\ KeyEnter)
          => IF TrimSpace(input) = << >>
             THEN UNCHANGED << replVars >>
             ELSE /\ history' = IF history # << >> /\ history[Len(history)] = TrimSpace(input)
                                THEN history ELSE Append(history, TrimSpace(input))
                  /\ historyIndex' = Len(history')
                  /\ input' = << >>
                  /\ processing'
                  /\ cmds' = Append(cmds, Request(TrimSpace(input)))]_vars

\* the same command submitted twice, the second time with a blank after it, is kept once
C28_Witness ==
    /\ mode = "REPL" /\ pc = "run"
    /\ Requests = 2
    /\ history = << << "a" >> >>
    /\ historyIndex = 1
    /\ input = << >>
    /\ processing

-----------------------------------------------------------------------------
(* Claims about the streaming of a response in the REPL *)

\* goroutine k is inside its callback with a chunk to send
AtCallback(k) == producers[k].pc = "callback" /\ producers[k].toSend # << >>

\* goroutine k's callback returns
CallbackStep(k) ==
    AtCallback(k) /\ producers' = [producers EXCEPT ![k].toSend = Tail(@)]

\* C25: the streaming producer never blocks on the stream channel: a chunk is enqueued when
\* the buffer has room and dropped when the buffer is full, the producer going on in both
\* cases, and the channel never holds more chunks than its capacity.
C25_ProducerNeverBlocks ==
    /\ [](mode = "REPL"
          => /\ Len(streamChannel) <= StreamCap
             /\ \A k \in 1..Len(producers) :
                   (Running /\ AtCallback(k)) => ENABLED ReplCallback(k))
    /\ [][\A k \in 1..Len(producers) :
             (mode = "REPL" /\ CallbackStep(k))
             => streamChannel' = IF Len(streamChannel) < StreamCap
                                 THEN Append(streamChannel, Head(producers[k].toSend))
                                 ELSE streamChannel]_vars

\* the third chunk of the only response was dropped: its goroutine has passed all three, two
\* are in the full channel and no tick has taken one
C25_Witness ==
    /\ mode = "REPL" /\ pc = "run"
    /\ Len(producers) = 1
    /\ producers[1].toSend = << >>
    /\ producers[1].err = "nil"
    /\ streamChannel = << << "p" >>, << "q" >> >>
    /\ conversationHistory = << UserPrefix \o << "a" >>, << >> >>

\* C26: while processing is true a tick removes at most one chunk from the stream channel,
\* the oldest one, and appends it to the last entry of conversationHistory; nothing else
\* takes a chunk out of the channel, so that the entry grows by the chunks in the order in
\* which they were enqueued and stays as it is once the channel is empty.
C26_TickAppendsOldestChunk ==
    [][(mode = "REPL" /\ (Tick \/ Len(streamChannel') < Len(streamChannel)))
       => IF processing /\ streamChannel # << >>
          THEN /\ streamChannel' = Tail(streamChannel)
               /\ Len(conversationHistory')
                     = (IF conversationHistory = << >> THEN 1 ELSE Len(conversationHistory))
               /\ conversationHistory'[Len(conversationHistory')]
                     = (IF conversationHistory = << >> THEN << >>
                        ELSE conversationHistory[Len(conversationHistory)])
                       \o Head(streamChannel)
               /\ \A i \in 1..(Len(conversationHistory) - 1) :
                     conversationHistory'[i] = conversationHistory[i]
          ELSE UNCHANGED << streamChannel, conversationHistory >>]_vars

\* three chunks were enqueued and three ticks handled while the goroutine has not returned:
\* the entry of the response is the three chunks in order
C26_Witness ==
    /\ mode = "REPL" /\ pc = "run"
    /\ processing
    /\ Len(producers) = 1
    /\ producers[1].pc = "callback"
    /\ producers[1].toSend = << >>
    /\ streamChannel = << >>
    /\ conversationHistory = << UserPrefix \o << "a" >>, << "p", "q", "p" >> >>

-----------------------------------------------------------------------------
(* Claims about the lines of a hunk *)

\* the lines of the hunk body of a diff text of ContentTextSet, the blank ones left out
BodyLines(text) ==
    LET ls == Split(text, "\n")
    IN  SelectSeq(SubSeq(ls, 3, Len(ls)), LAMBDA l : TrimSpace(l) # << >>)

\* the DiffLine of a line: its type by the marker, its content the text after the marker
MarkedLine(raw) ==
    [Type    |-> IF Head(raw) \in { "+", "-" } THEN Head(raw) ELSE " ",
     Content |-> Tail(raw)]

\* the same with the white space at the ends of the line lost: at its end for an added or
\* removed line, at both ends for a context line
TrimmedMarkedLine(raw) ==
    [Type    |-> IF Head(raw) \in { "+", "-" } THEN Head(raw) ELSE " ",
     Content |-> IF Head(raw) \in { "+", "-" } THEN TrimRight(Tail(raw))
                 ELSE TrimSpace(Tail(raw))]

ParsedBody == diffText \in ContentTextSet(MaxContentLines) /\ mode = "parseDiff" /\ pc = "done"

\* C31: every non-blank line inside an open hunk becomes one DiffLine, added for "+",
\* removed for "-", context otherwise, whose content is the text after the marker with its
\* indentation and its trailing spaces.
C31_ContentLineKept ==
    ParsedBody
    => /\ Len(changes) = 1 /\ Len(changes[1].Hunks) = 1
       /\ changes[1].Hunks[1].Lines
          = [i \in 1..Len(BodyLines(diffText)) |-> MarkedLine(BodyLines(diffText)[i])]

\* one DiffLine per line and the types are as claimed; the content has lost its white space
C31_ContentLineTrimmed ==
    ParsedBody
    => /\ Len(changes) = 1 /\ Len(changes[1].Hunks) = 1
       /\ changes[1].Hunks[1].Lines
          = [i \in 1..Len(BodyLines(diffText)) |-> TrimmedMarkedLine(BodyLines(diffText)[i])]

\* an added line that ends with a blank and an indented context line were parsed
C31_Witness ==
    /\ ParsedBody
    /\ BodyLines(diffText) = << << "+", "x", " " >>, << " ", " ", "x" >> >>
    /\ Len(changes[1].Hunks[1].Lines) = 2

-----------------------------------------------------------------------------
(* Claims about hunk headers *)

IsHunkHeader(l) == HasPrefix(l, HunkMarker)

\* the lines of a section that belong to a hunk body: behind the first "@@" line, neither
\* a "+++ b/" line nor a "@@" line
SectionContent(sec) ==
    { i \in 1..Len(sec) :
        /\ ~IsHunkHeader(sec[i]) /\ ~HasPrefix(sec[i], NewFileMarker)
        /\ \E j \in 1..(i - 1) : IsHunkHeader(sec[j]) }

RECURSIVE HunkLineCount(_)
\* the number of DiffLines of a sequence of hunks
HunkLineCount(hs) ==
    IF hs = << >> THEN 0 ELSE Len(Head(hs).Lines) + HunkLineCount(Tail(hs))

\* every "@@" line of the k-th section gave one hunk, every content line is in one hunk
OneHunkPerHeader(ls, k) ==
    /\ Len(changes[k].Hunks)
       = Cardinality({ i \in 1..Len(SectionOf(ls, k)) : IsHunkHeader(SectionOf(ls, k)[i]) })
    /\ HunkLineCount(changes[k].Hunks) = Cardinality(SectionContent(SectionOf(ls, k)))

ParsedOk == mode = "parseDiff" /\ pc = "done" /\ result.kind = "ok"

\* C32: every "@@" line behind a file header contributes exactly one DiffHunk to the
\* DiffChange of that file, and every content line is in exactly one hunk, also when the
\* header has fewer than two range tokens.
C32_OneHunkPerHeaderLine ==
    ParsedOk => \A k \in 1..Len(changes) : OneHunkPerHeader(TrimmedLines(diffText), k)

\* the same for the diff texts whose "@@" lines all have both range tokens
C32_OneHunkPerFullHeader ==
    (/\ ParsedOk
     /\ \A i \in 1..Len(TrimmedLines(diffText)) :
           IsHunkHeader(TrimmedLines(diffText)[i]) => IsFullHunkHeader(TrimmedLines(diffText)[i]))
    => \A k \in 1..Len(changes) : OneHunkPerHeader(TrimmedLines(diffText), k)

\* two full headers with a content line each gave two hunks of one line
C32_Witness ==
    /\ ParsedOk
    /\ Len(changes) = 1 /\ Len(changes[1].Hunks) = 2
    /\ Len(changes[1].Hunks[1].Lines) = 1 /\ Len(changes[1].Hunks[2].Lines) = 1
    /\ Len(TrimmedLines(diffText)) = 4

\* an open hunk, then "@@" without range tokens: the open hunk is in the output twice
C32_WitnessRepeatedHunk ==
    /\ ParsedOk
    /\ Len(changes) = 1 /\ Len(changes[1].Hunks) = 2
    /\ changes[1].Hunks[1] = changes[1].Hunks[2]
    /\ TrimmedLines(diffText)[3] = HunkMarker

-----------------------------------------------------------------------------
(* Claims about malformed ranges *)

\* a diff of MalformedTextSet was parsed by applyDiff
ParsedMalformed == mode = "applyDiff" /\ diffText \in MalformedTextSet /\ pc # "parse"

\* the file the diff names can be read
TargetReadable == FileAt(fs, JoinPath(RepoPath, changes[1].FilePath)).exists

\* C33: a hunk header with a non-numeric old range parses to a hunk with OldStart = 0, and
\* applying that hunk to any file content completes without an out-of-range failure.
C33_MalformedRangeDegrades ==
    ParsedMalformed
    => /\ Len(changes) = 1 /\ Len(changes[1].Hunks) = 1
       /\ changes[1].Hunks[1].OldStart = 0
       /\ pc # "panic"

\* the parsing half: OldStart is 0, and the hunk is applied without a failure when it
\* neither removes nor inserts a line
C33_MalformedRangeParsesAsZero ==
    ParsedMalformed
    => /\ Len(changes) = 1 /\ Len(changes[1].Hunks) = 1
       /\ changes[1].Hunks[1].OldStart = 0
       /\ (changes[1].Hunks[1].OldCount <= 0 /\ changes[1].Hunks[1].Lines = << >>)
             => pc # "panic"

\* the old range "x" gave OldStart 0 and OldCount 1, and the file was read
C33_Witness ==
    /\ ParsedMalformed /\ pc # "apply" /\ TargetReadable
    /\ changes[1].Hunks[1].OldStart = 0 /\ changes[1].Hunks[1].OldCount = 1

\* the old range "x,x" without a hunk body: the file was rewritten
C33_WitnessNothingToDo ==
    /\ ParsedMalformed /\ pc = "done" /\ result.kind = "ok"
    /\ changes[1].Hunks[1].OldCount = 0 /\ changes[1].Hunks[1].Lines = << >>
    /\ Len(ioLog) = 2

-----------------------------------------------------------------------------
(* Claims about the size of the conversation *)

\* C34: conversationHistory holds at most KeepEntries entries (20 in the code) after every
\* Update message: a request, a streamed chunk, an error, the notice of F5.
C34_HistoryCapped ==
    mode = "REPL" => Len(conversationHistory) <= KeepEntries

\* a request was handled: its goroutine was started
RequestStep == mode = "REPL" /\ Len(producers') = Len(producers) + 1

\* what holds instead: the handling of a request keeps the newest KeepEntries entries,
\* the oldest discarded first, and then appends the entry of the response, which makes
\* KeepEntries + 1 at most; a chunk and an error add no entry to a conversation that has one
C34_RequestKeepsNewest ==
    /\ [][RequestStep
           => \E i \in 1..Len(cmds) :
                 LET all == Append(conversationHistory, UserPrefix \o cmds[i].input)
                 IN  /\ Len(conversationHistory') = Min(Len(all), KeepEntries) + 1
                     /\ conversationHistory'[Len(conversationHistory')] = << >>
                     /\ \A j \in 1..Min(Len(all), KeepEntries) :
                           conversationHistory'[j]
                              = all[Len(all) - Min(Len(all), KeepEntries) + j]]_vars
    /\ [][(mode = "REPL" /\ (Tick \/ \E k \in 1..Len(producers) : ReplReturn(k))
                         /\ conversationHistory # << >>)
           => Len(conversationHistory') = Len(conversationHistory)]_vars

\* a request on a conversation of KeepEntries entries left KeepEntries + 1 entries
C34_Witness ==
    /\ mode = "REPL" /\ Len(producers) = 1
    /\ Len(conversationHistory) = KeepEntries + 1
    /\ conversationHistory[1] = SystemEntry
    /\ conversationHistory[KeepEntries + 1] = << >>

\* F5 on a conversation of KeepEntries entries left KeepEntries + 1 entries
C34_WitnessNotice ==
    /\ mode = "REPL" /\ producers = << >>
    /\ Len(conversationHistory) = KeepEntries + 1
    /\ conversationHistory[KeepEntries + 1] = SystemEntry

-----------------------------------------------------------------------------
(* Claims about the spinner *)

\* C35: the spinner frame is always in 0..9; a tick advances it by one modulo 10 when
\* processing is true and leaves it unchanged when processing is false, and in either
\* state the tick returns a new tick command, so that a tick command is always pending.
C35_SpinnerFrameInRange ==
    /\ [](mode = "REPL" => (spinnerFrame \in 0..9 /\ tickCmds >= 1))
    /\ [][(mode = "REPL" /\ Tick)
           => /\ spinnerFrame' = IF processing THEN (spinnerFrame + 1) % 10 ELSE spinnerFrame
              /\ tickCmds' >= 1]_vars
    /\ [][(mode = "REPL" /\ spinnerFrame' # spinnerFrame) => (processing /\ Tick)]_vars

\* nine ticks while the request is processed: the next tick takes the frame back to 0
C35_Witness ==
    /\ mode = "REPL" /\ pc = "run"
    /\ processing
    /\ spinnerFrame = 9
    /\ tickCmds = 1

\* the goroutine has set processing to false at frame 3: ticks leave the frame there
C35_WitnessIdle ==
    /\ mode = "REPL" /\ pc = "run"
    /\ ~processing
    /\ Len(producers) = 1 /\ producers[1].pc = "done"
    /\ spinnerFrame = 3
    /\ tickCmds = 1

-----------------------------------------------------------------------------
(* Claims about APPLY_DIFF *)

\* the scanner handles an APPLY_DIFF line
ApplyDiffLineStep ==
    /\ mode = "ExecuteTools" /\ pc = "scan" /\ li' = li + 1
    /\ HasPrefix(TrimSpace(respLines[li]), APPLY_DIFF)

\* the file is as it was, or it has got the newline its last line lacked
SameLines(before, after) ==
    \/ after = before
    \/ /\ before.exists /\ ~HasSuffix(before.data, << "\n" >>)
       /\ after = [before EXCEPT !.data = @ \o << "\n" >>]

C36_WitnessNoChange ==
    /\ mode = "ExecuteTools" /\ pc = "done"
    /\ Len(calls) = 1
    /\ calls[1].tool = "applyDiffTool" /\ ~calls[1].failed
    /\ parseDiff(calls[1].args[1]).changes = << >>
    /\ ioLog = << >>

-----------------------------------------------------------------------------
(* Claims about the result of applyDiffTool *)

\* the calls of applyDiffTool that returned "Diff applied successfully to the repository"
AppliedCalls ==
    { k \in 1..Len(calls) : calls[k].tool = "applyDiffTool" /\ ~calls[k].failed }

\* call k wrote a file
WroteFile(k) == \E n \in calls[k].ioFrom..calls[k].ioTo : ioLog[n].op = "write"

\* C37: whenever applyDiffTool returns "Diff applied successfully to the repository",
\* parseDiff produced at least one DiffChange and applyFileChange rewrote at least one file.
C37_SuccessMeansApplied ==
    mode = "ExecuteTools"
    => \A k \in AppliedCalls :
          /\ Len(parseDiff(calls[k].args[1]).changes) >= 1
          /\ WroteFile(k)

\* what holds instead: success is reported when no DiffChange failed, and then every
\* DiffChange that was parsed has been written to its file
C37_SuccessMeansNoFailure ==
    mode = "ExecuteTools"
    => \A k \in AppliedCalls :
          LET parsed == parseDiff(calls[k].args[1])
          IN  /\ ~parsed.err
              /\ Cardinality({ n \in calls[k].ioFrom..calls[k].ioTo : ioLog[n].op = "write" })
                    = Len(parsed.changes)

\* success was reported for a diff text without a DiffChange, and no file was touched
C37_Witness ==
    /\ mode = "ExecuteTools" /\ pc = "done"
    /\ \E k \in AppliedCalls :
          /\ parseDiff(calls[k].args[1]).changes = << >>
          /\ ~WroteFile(k)

-----------------------------------------------------------------------------
(* Claims about concurrent requests *)

\* the goroutines that have not finished
ActiveProducers == { k \in 1..Len(producers) : producers[k].pc # "done" }

\* Enter was accepted: submitInput returned the command of a request
EnterAccepted == mode = "REPL" /\ KeyEnter /\ Len(cmds') = Len(cmds) + 1

\* C38: at most one request goroutine is active at any time: Enter is not accepted and no
\* ollamaRequestMsg is handled while processing is true for an earlier request.
C38_OneRequestAtATime ==
    /\ [](mode = "REPL" => Cardinality(ActiveProducers) <= 1)
    /\ [][EnterAccepted => ~processing]_vars
    /\ [][RequestStep => ActiveProducers = { }]_vars

\* two goroutines are streaming, each with chunks left to pass
C38_Witness ==
    /\ mode = "REPL" /\ pc = "run"
    /\ Len(producers) = 2
    /\ \A k \in 1..2 : producers[k].pc = "callback" /\ producers[k].toSend # << >>
    /\ processing

\* the first goroutine has set processing to false while the second is streaming
C38_WitnessIdleWhileStreaming ==
    /\ mode = "REPL" /\ pc = "run"
    /\ Len(producers) = 2
    /\ producers[1].pc = "done"
    /\ producers[2].pc = "callback" /\ producers[2].toSend # << >>
    /\ ~processing

-----------------------------------------------------------------------------
(* Claims about the entry a chunk is appended to *)

\* an entry that holds a chunk of a response; the entries of the user and of F5 and the
\* text of an error hold none of the chunks' letters
HoldsChunk(entry) == \E i \in 1..Len(entry) : entry[i] \in { "p", "q" }

IsUserEntry(entry)   == HasPrefix(entry, UserPrefix)
IsSystemEntry(entry) == HasPrefix(entry, SystemEntry)

\* the goroutine started last has not passed a chunk yet: all chunks of the longest
\* response are still to be sent
LastRequestSilent ==
    /\ producers # << >>
    /\ producers[Len(producers)].pc = "callback"
    /\ Len(producers[Len(producers)].toSend) = MaxStreamLines

\* C39: a streamed chunk is only appended to the response entry created for its own
\* request: no "User:" or "System:" entry holds a chunk, and the entry of a request holds
\* no chunk while the goroutine of that request has not passed one.
C39_ChunkInOwnEntry ==
    mode = "REPL"
    => /\ \A i \in 1..Len(conversationHistory) :
             (IsUserEntry(conversationHistory[i]) \/ IsSystemEntry(conversationHistory[i]))
             => ~HoldsChunk(conversationHistory[i])
       /\ (LastRequestSilent /\ conversationHistory # << >>)
             => ~HoldsChunk(conversationHistory[Len(conversationHistory)])

\* F5 was pressed while the response was streaming: the next chunk went to the notice
C39_Witness ==
    /\ mode = "REPL" /\ pc = "run"
    /\ Len(conversationHistory) = 3
    /\ conversationHistory[1] = UserPrefix \o << "a" >>
    /\ conversationHistory[2] = << "p" >>
    /\ conversationHistory[3] = SystemEntry \o << "q" >>

\* a second request was started while the first was streaming: the entry of the second
\* request holds a chunk of the first, before its own goroutine has passed any
C39_WitnessOtherRequest ==
    /\ mode = "REPL" /\ pc = "run"
    /\ Len(producers) = 2
    /\ LastRequestSilent
    /\ conversationHistory[Len(conversationHistory) - 1] = UserPrefix \o << "a" >>
    /\ HoldsChunk(conversationHistory[Len(conversationHistory)])

-----------------------------------------------------------------------------
(* Claims about the draining of the stream channel *)

\* C40: under fair ticking every chunk that was accepted into the stream channel is
\* eventually taken out and appended to the conversation, also when the goroutine
\* finishes and sets processing to false while chunks are queued.
C40_ChunksEventuallyAppended ==
    (mode = "REPL" /\ streamChannel # << >>) ~> (streamChannel = << >>)

\* what holds instead: the channel is drained while processing stays true
C40_DrainedWhileProcessing ==
    (mode = "REPL" /\ streamChannel # << >>) ~> (streamChannel = << >> \/ ~processing)

\* the goroutine has finished and set processing to false with a chunk in the channel
C40_Witness ==
    /\ mode = "REPL" /\ pc = "run"
    /\ Len(producers) = 1 /\ producers[1].pc = "done"
    /\ ~processing
    /\ streamChannel # << >>

\* from such a state on, no step changes the channel or the conversation
C40_StrandedForGood ==
    [][(mode = "REPL" /\ ~processing /\ ActiveProducers = { } /\ cmds = << >>
                     /\ cmds' = << >>)
       => UNCHANGED << streamChannel, conversationHistory >>]_vars

====
